---- MODULE Spec2Model ----
(***************************************************************************)
(* A model of the HTTP/1.1 wire engine of deno-simple-fetch: the           *)
(* single-connection agent (src/src/agent.ts), the part of the response    *)
(* reader that ties the body stream to the agent (src/src/http-io.ts) and  *)
(* the per-origin agent pool (src/src/agent-pool.ts).                      *)
(*                                                                         *)
(* The runtime is a cooperative, single-threaded event loop.  One action   *)
(* of the model is one run-to-completion piece of code: the synchronous    *)
(* part of a call, or the continuation of an await.                        *)
(***************************************************************************)
EXTENDS Integers, Sequences, FiniteSets, TLC

\* ---------------------------------------------------------------- bounds
\* Requests (calls of send) issued in one behaviour.
MaxReq == 2
\* Agents a pool's factory creates in one behaviour.
MaxAgents == 2

Reqs == 1..MaxReq
Agents == 1..MaxAgents

\* Largest poolMaxPerHost value drawn as a pool option.
MaxPerHostOpt == 2

\* Socket reads in which the bytes of a head arrive.
MaxReads == 2

\* Calls of materializers on one body parser.
MaxCalls == 3

\* Chunks written to a chunked encoder.
MaxChunks == 2

\* Pools one client creates, and calls of its close.
MaxPools == 3
MaxCloses == 2

\* The largest content-length, and the bytes the peer sends after the head.
MaxLength == 2
MaxWire == 3

\* The bytes of a request body.
MaxBody == 2

VARIABLES
    agent,          \* agent[a]: the closure state of createAgent (agent.ts 17-24)
    req,            \* req[r]: the state of the r-th call of send and of its response
    sock,           \* sock[r]: the socket that request r's connect() opens
    idleResolved,   \* the whenIdle promises that are resolved (0: the initial one)
    nextReq,        \* the next request to be issued
    pool,           \* the generic-pool instance and the closure state of createAgentPool
    psend,          \* psend[r]: the state of the r-th call of the pool's send
    lr,             \* the line reader of one call of readResponse (http-io.ts 129-142)
    bp,             \* the closure state of one createBodyParser (body-parser.ts 12)
    cd,             \* one chunked encoder and the decoder that reads its output
    cl,             \* one HttpClient (unnamed/part_014 9-40): its pools, its calls of close
    bs,             \* the body stream of one call of readResponse (http-io.ts 156-221)
    wr              \* one call of writeRequest (http-io.ts 89-123)

vars == <<agent, req, sock, idleResolved, nextReq, pool, psend, lr, bp, cd, cl, bs, wr>>

\* The variables the agent and the pool do not touch.
aux == <<lr, bp, cd, cl, bs, wr>>

\* ------------------------------------------------------------ agent state
\* agent.ts 17-23: no connection, not busy, no controller, whenIdle resolved.
\* A connection is named by the request whose connect() opened it; 0 is undefined.
\* A whenIdle promise is named by the request that created it; 0 is the initial one.
NewAgent ==
    [connection |-> 0, isBusy |-> FALSE, lastController |-> 0, whenIdle |-> 0]

\* The per-call state of send: its closure variables (finalized,
\* shouldCloseAfterBody), where the call stands, and what the caller sees.
\*   pc: "new"        not yet called
\*       "connecting" awaiting createAbortablePromise(connect())      (agent.ts 94)
\*       "writing"    awaiting createAbortablePromise(writeRequest()) (agent.ts 104)
\*       "reading"    awaiting createAbortablePromise(readResponse()) (agent.ts 136)
\*       "rejecting"  the awaited promise was rejected by the abort listener; the
\*                    catch block has not run yet
\*       "returned"   send returned the response
\*       "failed"     send rejected
\*   wroteOn: the connection given to writeRequest (agent.ts 105)
\*   conn: the connection given to readResponse (agent.ts 137), which the body
\*       stream keeps reading (http-io.ts 169)
\*   body: the response's body stream: "none" (no response yet), "unread",
\*       "pulling" (the source's pull loop feeds a reader), "cancelling" (the piped
\*       readable side was cancelled; the source's cancel() has not run yet),
\*       "closed", "errored"
\*   pullActive: the loop of pull() (http-io.ts 172-177) is awaiting a socket read
\*   read: the consumer's read: "none" | "pending" | "done" | "error" | "abort"
\*   aborted: the request's signal has fired
\*   abortStage: where the request stood when the signal fired
\*   reason: while "rejecting", the reason the signal fired with
\*   rejection: while "rejecting", what the awaited promise was rejected with and
\*       the catch block rethrows: "reason" (the signal's reason itself),
\*       "ErrorOfString" or "TimeoutError" (utils.ts 30-38, agent.ts 189)
\*   outcome: "response", or why send rejected
\*   doneEffects: the runs of the body of onDone (history, read by no action)
\*   piped: the body goes through a TransformStream (http-io.ts 191-220)
\* A send that has rejected leaves no closure state behind: FailedReq keeps why it
\* rejected and the sockets the request used.
NewReq ==
    [pc |-> "new", agentOf |-> 0, wroteOn |-> 0, conn |-> 0,
     finalized |-> FALSE, shouldCloseAfterBody |-> FALSE,
     ignoreBody |-> FALSE, piped |-> FALSE,
     body |-> "none", pullActive |-> FALSE, read |-> "none",
     reclaimed |-> FALSE,
     aborted |-> FALSE, reason |-> "none", abortStage |-> "none",
     rejection |-> "none", outcome |-> "none",
     doneEffects |-> 0]

\* The consumer holds a reader on the body: it has started to read.
Locked(q) == q.read # "none"

\* The program state the agent's code reads and writes, as one value, so that the
\* callbacks the code nests (close -> abort listener -> cancel -> onDone) compose.
St == [agent |-> agent, req |-> req, sock |-> sock, idleResolved |-> idleResolved]

Commit(S) ==
    /\ agent' = S.agent
    /\ req' = S.req
    /\ sock' = S.sock
    /\ idleResolved' = S.idleResolved

\* connection?.close(); connection = undefined   (agent.ts 122-123, 179-180, 198-199)
CloseConnection(S, a) ==
    LET c == S.agent[a].connection IN
    IF c = 0 THEN S
    ELSE [S EXCEPT !.sock[c] = "closed", !.agent[a].connection = 0]

\* isBusy = false; lastController = undefined; whenIdle.resolve()
\* (agent.ts 126-128, 175-177).  whenIdle is the agent's variable: it is the promise
\* of whichever send assigned it last.
BecomeIdle(S, a) ==
    [S EXCEPT !.agent[a].isBusy = FALSE,
              !.agent[a].lastController = 0,
              !.idleResolved = @ \cup {S.agent[a].whenIdle}]

\* A mutant of OnDoneGuard: the finalized flag is not consulted.
OnDoneGuardNoFlag(S, r) == TRUE

\* agent.ts 118: if (finalized) return;
OnDoneGuard(S, r) == ~S.req[r].finalized

\* A mutant of OnDoneBody: the forceClose argument is ignored and the reuse
\* decision alone decides.
OnDoneBodyNoForce(S, r, forceClose) ==
    LET a == S.req[r].agentOf
        S1 == [S EXCEPT !.req[r].finalized = TRUE,
                        !.req[r].doneEffects = @ + 1]
        S2 == IF S.req[r].shouldCloseAfterBody THEN CloseConnection(S1, a) ELSE S1
        S3 == BecomeIdle(S2, a)
    IN S3

\* agent.ts 119-128: the effect of onDone.
OnDoneBody(S, r, forceClose) ==
    LET a == S.req[r].agentOf
        S1 == [S EXCEPT !.req[r].finalized = TRUE,
                        !.req[r].doneEffects = @ + 1]
        S2 == IF forceClose THEN CloseConnection(S1, a) ELSE S1
        S3 == BecomeIdle(S2, a)
    IN S3

\* agent.ts 117-129: onDone(forceClose).
OnDone(S, r, forceClose) ==
    IF OnDoneGuard(S, r) THEN OnDoneBody(S, r, forceClose) ELSE S

\* agent.ts 117: the default of the parameter is read when onDone is called.
OnDoneDefault(S, r) == OnDone(S, r, S.req[r].shouldCloseAfterBody)

\* utils.ts 30-38: what createAbortablePromise rejects with for an abort reason.
\*   "error":  the reason is an Error (the default AbortError and TimeoutError are)
\*   "other":  a truthy value that is not an Error
\*   "falsy":  a falsy value other than undefined (null, 0, "")
Reasons == {"error", "other", "falsy"}

OnAbortRejection(reason) ==
    CASE reason = "error" -> "reason"
      [] reason = "other" -> "ErrorOfString"
      [] OTHER -> "TimeoutError"

\* What is left of a call of send that rejected.
FailedReq(q, outcome) ==
    [NewReq EXCEPT !.pc = "failed", !.agentOf = q.agentOf, !.wroteOn = q.wroteOn,
                   !.conn = q.conn,
                   !.finalized = q.finalized, !.doneEffects = q.doneEffects,
                   !.outcome = outcome]

\* agent.ts 173-190: the catch block of send.
CatchBlock(S, r, outcome) ==
    LET a == S.req[r].agentOf
        S1 == CloseConnection(BecomeIdle(S, a), a)
    IN [S1 EXCEPT !.req[r] = FailedReq(S.req[r], outcome)]

\* ------------------------------------------------------------ agent: send
\* agent.ts 104-112: writeRequest(connection, ...) is called; its first write is
\* handed to the socket before its first await.
StartWrite(S, r) ==
    LET a == S.req[r].agentOf IN
    [S EXCEPT !.req[r].pc = "writing",
              !.req[r].wroteOn = S.agent[a].connection]

\* agent.ts 60: if (isBusy)
SendIsBusy(S, a) == S.agent[a].isBusy

\* A mutant of SendBusy: whenIdle is replaced before the busy check.
SendBusyClobbers(S, a, r) ==
    [S EXCEPT !.agent[a].whenIdle = r,
              !.req[r] = FailedReq(S.req[r], "busy")]

\* agent.ts 60-64: the busy rejection.
SendBusy(S, a, r) ==
    [S EXCEPT !.req[r] = FailedReq(S.req[r], "busy")]

\* A mutant of OriginMismatch: the origin of the request is not compared.
OriginMismatchNever(originOk) == FALSE

\* agent.ts 81-87: if (fullUrl.origin !== baseUrl).  originOk: the origin of the
\* request's URL is the agent's.
OriginMismatch(originOk) == ~originOk

\* agent.ts 57-112: the synchronous part of send(sendOptions), up to its first
\* await.  signalAborted: the caller's signal is already aborted.
SendSync(S, a, r, originOk, signalAborted) ==
    LET S0 == [S EXCEPT !.req[r].agentOf = a] IN
    IF SendIsBusy(S0, a) THEN SendBusy(S0, a, r)
    ELSE IF signalAborted THEN
        \* agent.ts 66: throwIfAborted throws the reason itself, outside the try.
        [S0 EXCEPT !.req[r] = FailedReq(S0.req[r], "aborted")]
    ELSE
        LET S1 == [S0 EXCEPT !.agent[a].isBusy = TRUE,
                             !.agent[a].whenIdle = r,
                             !.agent[a].lastController = r]
        IN  IF OriginMismatch(originOk) THEN CatchBlock(S1, r, "origin")
            ELSE IF S1.agent[a].connection = 0
                 THEN \* agent.ts 93-98, 42-55: connect() starts Deno.connect
                      [S1 EXCEPT !.req[r].pc = "connecting", !.sock[r] = "pending"]
                 ELSE StartWrite(S1, r)

\* agent.ts 51-54: Deno.connect resolved: connection is assigned, whatever became of
\* the send that started it; then, if that send still awaits it, agent.ts 100-112.
ConnectResolved(S, r) ==
    LET a == S.req[r].agentOf
        S1 == [S EXCEPT !.sock[r] = "open", !.agent[a].connection = r]
    IN IF S.req[r].pc = "connecting" THEN StartWrite(S1, r) ELSE S1

\* Deno.connect rejected.
ConnectRejected(S, r) ==
    LET S1 == [S EXCEPT !.sock[r] = "failed"] IN
    IF S.req[r].pc = "connecting"
    THEN CatchBlock(S1, r, "connect")
    ELSE S1

\* agent.ts 147-151 and http-io.ts 185-187: cancel() of the response's body.  A body
\* that goes through a TransformStream (content-length or chunked, http-io.ts
\* 191-220) hands the cancellation to its source through the pipe, in a later
\* microtask; an unpiped body calls the source's cancel() at once.
CancelBody(S, r) ==
    LET S1 == [S EXCEPT !.req[r].read = IF @ = "pending" THEN "done" ELSE @] IN
    IF ~S.req[r].piped
    THEN OnDoneDefault([S1 EXCEPT !.req[r].body = "closed"], r)
    ELSE [S1 EXCEPT !.req[r].body = "cancelling"]

\* agent.ts 146-151: the abort listener of a returned response.  deref() is
\* undefined once the response was reclaimed; cancel() of a locked stream returns a
\* rejected promise and cancels nothing; cancel() of a closed or errored stream
\* does nothing.
AbortListener(S, r) ==
    IF S.req[r].reclaimed \/ Locked(S.req[r]) \/ S.req[r].body # "unread"
    THEN S
    ELSE CancelBody(S, r)

\* The request's signal (AbortSignal.any of the caller's and the agent-local one,
\* agent.ts 89-91) fires: the listener of createAbortablePromise (utils.ts 30-45)
\* rejects the awaited promise, or the listener of agent.ts 147 runs.
Stage(q) ==
    CASE q.pc \in {"connecting", "writing", "reading"} -> q.pc
      [] /\ q.pc = "returned"
         /\ q.body \in {"unread", "pulling", "cancelling"}
         /\ ~q.reclaimed -> "body"
      [] OTHER -> "after"

SignalFires(S, r, reason) ==
    LET q == S.req[r]
        S1 == [S EXCEPT !.req[r].aborted = TRUE,
                        !.req[r].abortStage = Stage(q)]
    IN  IF q.aborted \/ Stage(q) = "after" THEN S
        ELSE IF Stage(q) = "body" THEN AbortListener(S1, r)
        ELSE [S1 EXCEPT !.req[r].pc = "rejecting",
                        !.req[r].reason = reason,
                        !.req[r].rejection = OnAbortRejection(reason)]

\* agent.ts 193-202: close().
AgentClose(S, a) ==
    LET c == S.agent[a].lastController
        S1 == IF c # 0 THEN SignalFires(S, c, "error") ELSE S
        S2 == CloseConnection([S1 EXCEPT !.agent[a].lastController = 0], a)
    IN [S2 EXCEPT !.agent[a].isBusy = FALSE,
                  !.idleResolved = @ \cup {S2.agent[a].whenIdle}]

\* http-io.ts 144-163 and agent.ts 140-172: the head of the response was parsed.
\*   kind "body": the body is not ignored; hasContentLength and isChunked are the
\*       response's (agent.ts 155-157, http-io.ts 150-151).
\*   kind "head": a HEAD request: readResponse deletes content-length,
\*       transfer-encoding and content-encoding, and start() closes the stream and
\*       calls onDone() before send reads the headers (agent.ts 155-161).
\*   kind "nullstatus": a status of 1xx, 204 or 304, on any method: start() has
\*       called onDone() when new Response(bodyStream, {status}) (http-io.ts 237)
\*       throws, a body being given for a null-body status (or a status below 200),
\*       and send's catch block runs.
Kinds == {"body", "head", "nullstatus"}

HeadParsed(S, r, kind, hasContentLength, isChunked) ==
    IF kind = "body" THEN
        [S EXCEPT !.req[r].pc = "returned",
                  !.req[r].outcome = "response",
                  !.req[r].piped = (isChunked \/ hasContentLength),
                  !.req[r].body = "unread",
                  !.req[r].shouldCloseAfterBody = (~hasContentLength /\ ~isChunked)]
    ELSE
        LET S1 == OnDoneDefault([S EXCEPT !.req[r].ignoreBody = TRUE,
                                          !.req[r].body = "closed"], r)
        IN  IF kind = "head"
            THEN [S1 EXCEPT !.req[r].pc = "returned",
                            !.req[r].outcome = "response",
                            !.req[r].shouldCloseAfterBody = TRUE]
            ELSE CatchBlock(S1, r, "badstatus")

\* -------------------------------------------------- the body stream's source
\* http-io.ts 168-184: the consumer's first read makes the stream call pull(), whose
\* loop reads the socket until EOF, an error or the abort flag of the framing.
FirstRead(S, r) ==
    [S EXCEPT !.req[r].read = "pending",
              !.req[r].body = "pulling",
              !.req[r].pullActive = TRUE]

\* http-io.ts 191-220: pipeThrough starts a pipe from the source into the
\* transform, whose writable side takes one chunk before it signals backpressure:
\* the pipe reads the source at once.  When the head left no body byte in the
\* buffer (http-io.ts 164-166) the source's queue is empty and the stream calls
\* pull(), whose loop starts to read the socket, the consumer having read nothing.
PipeFirstPull(S, r) ==
    [S EXCEPT !.req[r].pullActive = TRUE]

\* The body reached its end while the consumer reads it.
\*   not piped: the peer closed: reader.read() is done, the loop breaks,
\*       controller.close(), and finally onDone()          (http-io.ts 175-183)
\*   content-length: the transform has forwarded length bytes and terminates
\*       (http-io.ts 214-217); chunked: the decoder terminates (streams.ts 184-187).
\*       The readable side closes and the pipe cancels the source, whose cancel()
\*       calls onDone() (http-io.ts 185-187); the loop of pull() is still awaiting
\*       its read.
BodyEnds(S, r) ==
    LET S1 == [S EXCEPT !.req[r].read = IF @ = "pending" THEN "done" ELSE @,
                        !.req[r].body = "closed"]
    IN  IF ~S.req[r].piped
        THEN OnDoneDefault([S1 EXCEPT !.req[r].pullActive = FALSE], r)
        ELSE OnDoneDefault(S1, r)

\* http-io.ts 179-183: the socket read of the loop failed (the socket was closed
\* under it, or the transport failed): controller.error(error), finally onDone().
BodyReadFails(S, r) ==
    OnDoneDefault([S EXCEPT !.req[r].read = IF @ = "pending" THEN "error" ELSE @,
                            !.req[r].body = "errored",
                            !.req[r].pullActive = FALSE], r)

\* http-io.ts 172-183: the loop of pull() ends after the stream was closed or
\* cancelled over it (its read returns, or it sees the abort flag): whatever
\* close() or enqueue() throws is caught, and finally onDone() is called again.
PullLoopExits(S, r) ==
    OnDoneDefault([S EXCEPT !.req[r].pullActive = FALSE], r)

\* http-io.ts 185-187: the pipe delivers the cancellation to the source.
SourceCancelled(S, r) ==
    OnDoneDefault([S EXCEPT !.req[r].body = "closed"], r)

\* agent.ts 14-16, 166-170: the response was reclaimed and its cleanup runs.
RegistryCleanup(S, r) ==
    LET S1 == [S EXCEPT !.req[r].reclaimed = TRUE] IN
    IF ~S.req[r].finalized THEN OnDone(S1, r, TRUE) ELSE S1

\* ------------------------------------------------------------------ the pool
\* agent-pool.ts 7: Number.MAX_SAFE_INTEGER, which no count of the model reaches.
defaultMax == 2147483647

\* Math.max and Math.min.
MathMax(x, y) == IF x >= y THEN x ELSE y
MathMin(x, y) == IF x <= y THEN x ELSE y

\* The poolMaxPerHost option of createAgentPool: not set, or a number, which may
\* be zero or negative.
Unset == [set |-> FALSE, value |-> 0]
PoolOptions == {Unset} \cup {[set |-> TRUE, value |-> v] : v \in -1..MaxPerHostOpt}

\* A mutant of PoolMax: the option is not read.
PoolMaxIgnoresOption(o) == defaultMax

\* agent-pool.ts 20-22: a number that is not set, or falsy, gives the default.
PoolMax(o) ==
    IF o.set /\ o.value # 0 THEN MathMax(1, o.value) ELSE defaultMax

\* agent-pool.ts 35-51: the pool that createPool returns, of generic-pool:
\*   max: the option passed to createPool
\*   allObjects: the agents the pool holds; creating: the factory create
\*       operations in progress, each named by the agent that create() made
\*   available: the idle agents, oldest first; loans: the borrowed agents
\*   waiting: the pending acquire requests, oldest first, named by their send
\*   nextAgent: the next agent the factory makes
\*   draining: generic-pool's _draining, set by drain()
\*   closePc: where the call of close() stands (agent-pool.ts 85-89): "none" (not
\*       called), "releasing" (awaiting the releases), "draining" (awaiting
\*       drain()), "closed" (clear() is done and close has returned)
NewPool(o) ==
    [options |-> o, max |-> PoolMax(o), allObjects |-> {}, creating |-> {},
     available |-> <<>>, loans |-> {}, waiting |-> <<>>, nextAgent |-> 1,
     draining |-> FALSE, closePc |-> "none"]

\* agent-pool.ts 53-83: the state of one call of the pool's send.
\*   stage: "none"     not called
\*          "queued"   awaiting pool.acquire()                (agent-pool.ts 75)
\*          "acquired" acquire resolved with psend.agent; the await has not resumed
\*          "sent"     agent.send was called and the callback of whenIdle().then
\*                     is registered on promise thenOn        (agent-pool.ts 76-78)
\*          "done"     that callback has run
\*          "rejected" acquire rejected and send rethrew    (agent-pool.ts 79-82)
\*   queuedAtClose: the send was awaiting acquire, no agent dispatched to it, when
\*       close() was called (history, read by no action)
\*   signalAborted: the caller's signal (sendOptions.signal) was aborted while
\*       the send awaited acquire; the pool's send never reads the signal
\*   ahead: the requests waiting in the pool's queue when this one joined it
\*       (history, read by no action)
\*   closePcAtSend: where close() stood when the send was called (history, read
\*       by no action)
\*   waited: at its acquire no agent was idle and none was being made for it
\*       (history, read by no action)
NewPoolSend ==
    [stage |-> "none", agent |-> 0, agentReleased |-> FALSE, thenOn |-> 0,
     waited |-> FALSE, queuedAtClose |-> FALSE, closePcAtSend |-> "none",
     signalAborted |-> FALSE, ahead |-> 0]

\* The pool and the calls of its send, as one value.
PS == [pool |-> pool, psend |-> psend]

\* generic-pool, spareResourceCapacity and _dispense: the agents to create for
\* the waiting requests.
ToCreate(p) ==
    LET spare == p.max - (Cardinality(p.allObjects) + Cardinality(p.creating))
        shortfall == Len(p.waiting) - (Len(p.available) + Cardinality(p.creating))
    IN  MathMax(0, MathMin(spare, shortfall))

\* agent-pool.ts 26-28: min, the bound on idle agents given to generic-pool as its
\* minimum size, for the option poolMaxIdlePerHost left unset, as in every pool
\* here.
PoolMinUnset == 0

\* A mutant of Dispense: the idle agents go to the newest waiting requests.
DispenseNewestFirst(P) ==
    LET p == P.pool
        created == p.nextAgent .. (p.nextAgent + ToCreate(p) - 1)
        n == MathMin(Len(p.available), Len(p.waiting))
        k == Len(p.waiting) - n
    IN  IF Len(p.waiting) < 1 THEN P
        ELSE [pool |-> [p EXCEPT !.creating = @ \cup created,
                                 !.nextAgent = @ + ToCreate(p),
                                 !.loans = @ \cup {p.available[i] : i \in 1..n},
                                 !.available = SubSeq(@, n + 1, Len(@)),
                                 !.waiting = SubSeq(@, 1, k)],
              psend |-> [r \in Reqs |->
                  IF \E i \in 1..n : p.waiting[k + i] = r
                  THEN [P.psend[r] EXCEPT
                           !.stage = "acquired",
                           !.agent = p.available[CHOOSE i \in 1..n : p.waiting[k + i] = r]]
                  ELSE P.psend[r]]]

\* generic-pool, _dispense: create what is missing (factory.create(), that is
\* createAgent, agent-pool.ts 43-45), then hand the idle agents to the oldest
\* waiting requests.
Dispense(P) ==
    LET p == P.pool
        created == p.nextAgent .. (p.nextAgent + ToCreate(p) - 1)
        n == MathMin(Len(p.available), Len(p.waiting))
    IN  IF Len(p.waiting) < 1 THEN P
        ELSE [pool |-> [p EXCEPT !.creating = @ \cup created,
                                 !.nextAgent = @ + ToCreate(p),
                                 !.loans = @ \cup {p.available[i] : i \in 1..n},
                                 !.available = SubSeq(@, n + 1, Len(@)),
                                 !.waiting = SubSeq(@, n + 1, Len(@))],
              psend |-> [r \in Reqs |->
                  IF \E i \in 1..n : p.waiting[i] = r
                  THEN [P.psend[r] EXCEPT
                           !.stage = "acquired",
                           !.agent = p.available[CHOOSE i \in 1..n : p.waiting[i] = r]]
                  ELSE P.psend[r]]]

\* A mutant of PoolAcquire: a draining pool takes the request like any other.
PoolAcquireWhileDraining(P, r) ==
    Dispense([P EXCEPT !.pool.waiting = Append(@, r),
                       !.psend[r].stage = "queued"])

\* agent-pool.ts 75, 79-82: pool.acquire(): a draining pool rejects ("pool is
\* draining and cannot accept work"), and the catch block of send, its agent
\* being undefined, rethrows; otherwise the request joins the queue, then
\* _dispense.
PoolAcquire(P, r) ==
    IF P.pool.draining
    THEN [P EXCEPT !.psend[r].stage = "rejected"]
    ELSE Dispense([P EXCEPT !.pool.waiting = Append(@, r),
                            !.psend[r].stage = "queued"])

\* agent-pool.ts 43-45: the promise of create() resolved: the agent joins the
\* pool as idle, the operation is no longer in progress, then _dispense.
PoolCreated(P, a) ==
    Dispense([P EXCEPT !.pool.creating = @ \ {a},
                       !.pool.allObjects = @ \cup {a},
                       !.pool.available = Append(@, a)])

\* agent-pool.ts 70: pool.release(agent): the loan ends, the agent is idle again,
\* then _dispense.
PoolRelease(P, a) ==
    Dispense([P EXCEPT !.pool.loans = @ \ {a},
                       !.pool.available = Append(@, a)])

\* A mutant of ReleaseAgentFn: the agent is marked released and kept.
ReleaseAgentFnKeeps(P, r) ==
    [P EXCEPT !.psend[r].agentReleased = TRUE]

\* agent-pool.ts 58-72: releaseAgentFn(), forceClose being false.
ReleaseAgentFn(P, r) ==
    LET a == P.psend[r].agent
        P1 == [P EXCEPT !.psend[r].agentReleased = TRUE]
    IN  IF P.psend[r].stage \in {"none", "queued", "acquired", "rejected"}
           \/ P.psend[r].agentReleased
        THEN P
        ELSE IF a \in P.pool.loans THEN PoolRelease(P1, a) ELSE P1

\* agent-pool.ts 58-72: the sends whose releaseAgentFn(true) goes past its first
\* line: the agent is assigned and not released yet.
HoldsAgent(ps) == ps.stage = "sent" /\ ~ps.agentReleased

\* agent-pool.ts 86: releaseAgentFns.map((release) => release(true)): for the
\* sends from r on, oldest first, the pool's side: the agent is released and
\* _dispense hands it to the oldest waiting request.
RECURSIVE ReleaseAllFrom(_, _)
ReleaseAllFrom(P, r) ==
    IF r > MaxReq THEN P ELSE ReleaseAllFrom(ReleaseAgentFn(P, r), r + 1)

\* agent-pool.ts 66-68, 86: the agents' side: agent.close() for each of them.
RECURSIVE CloseAllFrom(_, _)
CloseAllFrom(S, r) ==
    IF r > MaxReq THEN S
    ELSE CloseAllFrom(IF HoldsAgent(psend[r]) THEN AgentClose(S, psend[r].agent) ELSE S,
                      r + 1)

\* generic-pool, clear: destroy (agent-pool.ts 46-48) closes every idle agent.
RECURSIVE DestroyAll(_, _)
DestroyAll(S, agents) ==
    IF agents = <<>> THEN S ELSE DestroyAll(AgentClose(S, Head(agents)), Tail(agents))

\* The agents of a pool that are created and not destroyed.
Alive == pool.allObjects \cup pool.creating

\* ------------------------------------------------- the head of the response
\* Bytes are named by the character they encode: "CR", "LF", " ", a digit, or a
\* letter.  A line is [isNull, text]: readLine returns null or a string.
NullLine == [isNull |-> TRUE, text |-> <<>>]
Line(text) == [isNull |-> FALSE, text |-> text]

\* http-io.ts 22-37: LineReader._findLineEnd: the position of the first CRLF or
\* LF of the buffer and the length of the terminator; pos 0 when there is none.
IsLineEndAt(buf, i) ==
    \/ i < Len(buf) /\ buf[i] = "CR" /\ buf[i + 1] = "LF"
    \/ buf[i] = "LF"

FindLineEnd(buf) ==
    IF \E i \in 1..Len(buf) : IsLineEndAt(buf, i)
    THEN LET p == CHOOSE i \in 1..Len(buf) :
                      /\ IsLineEndAt(buf, i)
                      /\ \A j \in 1..(i - 1) : ~IsLineEndAt(buf, j)
         IN [pos |-> p, length |-> IF buf[p] = "LF" THEN 1 ELSE 2]
    ELSE [pos |-> 0, length |-> 0]

\* String.prototype.split(' ') (http-io.ts 138): the pieces between the spaces.
RECURSIVE SplitOnSpace(_)
SplitOnSpace(s) ==
    IF \E i \in 1..Len(s) : s[i] = " "
    THEN LET p == CHOOSE i \in 1..Len(s) :
                      s[i] = " " /\ \A j \in 1..(i - 1) : s[j] # " "
         IN <<SubSeq(s, 1, p - 1)>> \o SplitOnSpace(SubSeq(s, p + 1, Len(s)))
    ELSE <<s>>

Digits == {"0", "1", "2", "3", "4", "5", "6", "7", "8", "9"}

DigitValue(c) ==
    CASE c = "0" -> 0 [] c = "1" -> 1 [] c = "2" -> 2 [] c = "3" -> 3
      [] c = "4" -> 4 [] c = "5" -> 5 [] c = "6" -> 6 [] c = "7" -> 7
      [] c = "8" -> 8 [] OTHER -> 9

\* NaN, as a number no status is.
NaN == -1

\* parseInt (http-io.ts 140) of a string without blanks or sign: the number its
\* leading digits write, NaN when it has none.
RECURSIVE LeadingDigits(_, _)
LeadingDigits(s, acc) ==
    IF s # <<>> /\ Head(s) \in Digits
    THEN LeadingDigits(Tail(s), 10 * acc + DigitValue(Head(s)))
    ELSE acc

ParseInt(s) ==
    IF s # <<>> /\ Head(s) \in Digits THEN LeadingDigits(s, 0) ELSE NaN

\* http-io.ts 138-140: the status of a status line; the second piece is undefined
\* when the line has no space, and parseInt(undefined) is NaN.
StatusOf(statusLine) ==
    LET pieces == SplitOnSpace(statusLine) IN
    IF Len(pieces) >= 2 THEN ParseInt(pieces[2]) ELSE NaN

\* agent.ts 131-134: shouldIgnoreBody.
ShouldIgnoreBody(isHeadRequest, status) ==
    \/ isHeadRequest
    \/ status >= 100 /\ status < 200
    \/ status = 204
    \/ status = 304

\* http-io.ts 237-241: new Response(bodyStream, {status, ...}) with a body that is
\* a stream: a status outside 200..599 (NaN converts to 0) throws a RangeError, a
\* null-body status throws a TypeError.
NewResponse(status) ==
    IF status < 200 \/ status > 599 THEN "RangeError"
    ELSE IF status \in {204, 205, 304} THEN "TypeError"
    ELSE "response"

\* Statuses a server answers with: an informational one, one with a body, one
\* without, a redirect, and the 3xx status that has no body.
Statuses == {101, 200, 204, 302, 304}

\* The kind (see Kinds) of a response by its status and the request's method: a
\* status for which new Response throws is "nullstatus", whatever the method.
KindOf(status, isHeadRequest) ==
    IF NewResponse(status) # "response" THEN "nullstatus"
    ELSE IF isHeadRequest THEN "head"
    ELSE "body"

\* The state of one call of readResponse up to the construction of the Response:
\*   received: every byte the peer sent before it closed (fixed)
\*   wire: the socket reads still to come, each a chunk of bytes; then EOF
\*   buffer: LineReader._buffer
\*   stage: "status" (awaiting the status line), "headers", "done"
\*   outcome: how send settles: "response", or the name of the error
NewLineReader(received, reads, isHeadRequest) ==
    [received |-> received, wire |-> reads, buffer |-> <<>>, stage |-> "status",
     statusLine |-> <<>>, headerLines |-> 0, isHeadRequest |-> isHeadRequest,
     outcome |-> "none"]

\* The line reader of the specifications that read no head.
NoLineReader == [NewLineReader(<<>>, <<>>, FALSE) EXCEPT !.stage = "unused"]

\* http-io.ts 132-136 and agent.ts 182-187: readLine gave the status line; null
\* throws UnexpectedEofError, which send's catch block replaces by
\* ConnectionClosedError.
StatusLineRead(L, line) ==
    IF line.isNull
    THEN [L EXCEPT !.stage = "done", !.outcome = "ConnectionClosedError"]
    ELSE [L EXCEPT !.statusLine = line.text, !.stage = "headers"]

\* http-io.ts 144-241: the headers are read; the Response is constructed.
HeadComplete(L) ==
    [L EXCEPT !.stage = "done", !.outcome = NewResponse(StatusOf(L.statusLine))]

\* http-io.ts 66-82: readHeaders takes a line: null or the empty line ends the
\* headers.
HeaderLineRead(L, line) ==
    IF line.isNull \/ line.text = <<>>
    THEN HeadComplete(L)
    ELSE [L EXCEPT !.headerLines = @ + 1]

LineRead(L, line) ==
    IF L.stage = "status" THEN StatusLineRead(L, line) ELSE HeaderLineRead(L, line)

\* http-io.ts 39-48: readLine returns the lines the buffer holds, one per call,
\* until no line end is left and it must await a read.
RECURSIVE TakeLines(_)
TakeLines(L) ==
    LET e == FindLineEnd(L.buffer) IN
    IF L.stage = "done" \/ e.pos = 0 THEN L
    ELSE TakeLines(LineRead(
             [L EXCEPT !.buffer = SubSeq(@, e.pos + e.length, Len(@))],
             Line(SubSeq(L.buffer, 1, e.pos - 1))))

\* http-io.ts 50, 61: the awaited read gave a chunk.
ChunkRead(L) ==
    TakeLines([L EXCEPT !.buffer = @ \o Head(L.wire), !.wire = Tail(@)])

\* http-io.ts 50-59: the awaited read is done (EOF): what the buffer holds is
\* returned as a line, null when it holds nothing.
EofRead(L) ==
    LineRead([L EXCEPT !.buffer = <<>>],
             IF L.buffer # <<>> THEN Line(L.buffer) ELSE NullLine)

\* The ways to receive the bytes b in at most k socket reads, none empty.
RECURSIVE SplitsUpTo(_, _)
SplitsUpTo(b, k) ==
    IF b = <<>> THEN {<<>>}
    ELSE IF k <= 1 THEN {<<b>>}
    ELSE UNION {{<<SubSeq(b, 1, i)>> \o rest :
                    rest \in SplitsUpTo(SubSeq(b, i + 1, Len(b)), k - 1)} :
                i \in 1..Len(b)}

Prefixes(s) == {SubSeq(s, 1, n) : n \in 0..Len(s)}

\* Heads a server sends: a status line with a reason and CRLF, one without a
\* reason and with bare LF, and one with a header.
Heads ==
    {<<"H", " ", "2", "0", "0", " ", "K", "CR", "LF", "CR", "LF">>,
     <<"H", " ", "4", "0", "4", "LF", "LF">>,
     <<"H", " ", "2", "0", "0", "CR", "LF", "C", ":", "1", "CR", "LF", "CR", "LF">>}

\* ------------------------------------------------------------ the body parser
\* body-parser.ts 43-88: the materializers of createBodyParser.
Materializers == {"text", "json", "arrayBuffer", "blob", "formData"}

\* The content types formData tells apart (body-parser.ts 60-76).
ContentTypes == {"urlencoded", "multipart", "other"}

\* The state of one createBodyParser: its bodyUsed flag (body-parser.ts 12), its
\* contentType, and the calls made so far, each with its method and its outcome:
\*   "reading"      the call awaits the stream (body-parser.ts 25)
\*   "value"        the call resolved
\*   "SyntaxError"  JSON.parse threw (body-parser.ts 51)
\*   "AlreadyRead"  TypeError('body stream already read')
\*   "Unsupported"  'Unsupported content type for form data'
\*   "Multipart"    'Multipart form data parsing requires additional implementation'
NewBodyParser(contentType) ==
    [bodyUsed |-> FALSE, contentType |-> contentType, calls |-> <<>>]

\* The body parser of the specifications that materialize no body.
NoBodyParser == NewBodyParser("none")

\* A mutant of AssertNotUsed: the flag is not set by the call.
AssertNotUsedKeepsFlag(B, method) ==
    IF B.bodyUsed
    THEN [B EXCEPT !.calls = Append(@, [method |-> method, outcome |-> "AlreadyRead"])]
    ELSE [B EXCEPT !.calls = Append(@, [method |-> method, outcome |-> "reading"])]

\* body-parser.ts 14-25: getArrayBuffer up to its await: assertNotUsed throws when
\* the flag is set and sets it otherwise, before the stream is read.
AssertNotUsed(B, method) ==
    IF B.bodyUsed
    THEN [B EXCEPT !.calls = Append(@, [method |-> method, outcome |-> "AlreadyRead"])]
    ELSE [B EXCEPT !.bodyUsed = TRUE,
                   !.calls = Append(@, [method |-> method, outcome |-> "reading"])]

\* body-parser.ts 48-87: the synchronous part of a materializer.  formData looks at
\* the content type first and reaches getArrayBuffer (through text) only for an
\* urlencoded body.
Materialize(B, method) ==
    IF method = "formData" /\ B.contentType = "multipart"
    THEN [B EXCEPT !.calls = Append(@, [method |-> method, outcome |-> "Multipart"])]
    ELSE IF method = "formData" /\ B.contentType # "urlencoded"
    THEN [B EXCEPT !.calls = Append(@, [method |-> method, outcome |-> "Unsupported"])]
    ELSE AssertNotUsed(B, method)

\* ------------------------------------------------------- the chunked codec
\* Number.prototype.toString(16) (streams.ts 64) and parseInt(s, 16) (streams.ts
\* 141) over the digits the encoder writes.
HexChars == <<"0", "1", "2", "3", "4", "5", "6", "7", "8", "9",
              "a", "b", "c", "d", "e", "f">>

RECURSIVE ToHex(_)
ToHex(n) ==
    IF n < 16 THEN <<HexChars[n + 1]>>
    ELSE ToHex(n \div 16) \o <<HexChars[(n % 16) + 1]>>

RECURSIVE ParseHex(_, _)
ParseHex(s, acc) ==
    IF s = <<>> THEN acc
    ELSE ParseHex(Tail(s),
                  16 * acc + (CHOOSE i \in 1..16 : HexChars[i] = Head(s)) - 1)

\* String.prototype.trim over the bytes of the model: the white space at both
\* ends goes, line ends included.
WhiteSpace == {"SP", "CR", "LF"}

RECURSIVE TrimStart(_)
TrimStart(s) ==
    IF s # <<>> /\ Head(s) \in WhiteSpace THEN TrimStart(Tail(s)) ELSE s

RECURSIVE TrimEnd(_)
TrimEnd(s) ==
    IF s # <<>> /\ s[Len(s)] \in WhiteSpace
    THEN TrimEnd(SubSeq(s, 1, Len(s) - 1)) ELSE s

Trim(s) == TrimEnd(TrimStart(s))

\* A mutant of ValidChunkSizeLine: a line with no digit passes.
ValidChunkSizeLineOrEmpty(line) ==
    \A i \in 1..Len(Trim(line)) : \E k \in 1..16 : HexChars[k] = Trim(line)[i]

\* streams.ts 115-121: validateChunkSizeLine: after trimming, only hex digits,
\* at least one.
ValidChunkSizeLine(line) ==
    /\ Trim(line) # <<>>
    /\ \A i \in 1..Len(Trim(line)) : \E k \in 1..16 : HexChars[k] = Trim(line)[i]

\* A mutant of EncodeTransform: an empty chunk is framed like any other.
EncodeTransformFramesEmpty(chunk) ==
    ToHex(Len(chunk)) \o <<"CR", "LF">> \o chunk \o <<"CR", "LF">>

\* streams.ts 58-68: the encoder's transform: the bytes it enqueues for a chunk.
EncodeTransform(chunk) ==
    IF Len(chunk) = 0 THEN <<>>
    ELSE ToHex(Len(chunk)) \o <<"CR", "LF">> \o chunk \o <<"CR", "LF">>

\* streams.ts 70-72: the encoder's flush.
EncodeFlush == <<"0", "CR", "LF", "CR", "LF">>

\* streams.ts 52-75: what createChunkedEncodingStream writes for the chunks
\* written to it, when its writable side is closed after them.
RECURSIVE ChunkedEncode(_)
ChunkedEncode(chunks) ==
    IF chunks = <<>> THEN EncodeFlush
    ELSE EncodeTransform(Head(chunks)) \o ChunkedEncode(Tail(chunks))

\* streams.ts 104-111: findCRLF: the position of the first CR LF, 0 for none.
FindCRLF(data) ==
    IF \E i \in 1..(Len(data) - 1) : data[i] = "CR" /\ data[i + 1] = "LF"
    THEN CHOOSE i \in 1..(Len(data) - 1) :
             /\ data[i] = "CR" /\ data[i + 1] = "LF"
             /\ \A j \in 1..(i - 1) : ~(data[j] = "CR" /\ data[j + 1] = "LF")
    ELSE 0

\* streams.ts 82-87: the closure state of createChunkedDecodingStream, with what
\* its readable side has delivered (out), whether that side has ended, by
\* terminate() or after flush, and whether it was errored.
NewDecoder ==
    [buffer |-> <<>>, state |-> "size", chunkSize |-> 0, chunkBytesRead |-> 0,
     out |-> <<>>, ended |-> FALSE, errored |-> FALSE]

\* streams.ts 127-190: the loop of the decoder's transform.
RECURSIVE DecodeLoop(_)
DecodeLoop(D) ==
    LET b == D.buffer
        i == FindCRLF(b)
        line == SubSeq(b, 1, i - 1)
        afterLine == SubSeq(b, i + 2, Len(b))
        bytesAvailable == MathMin(D.chunkSize - D.chunkBytesRead, Len(b))
        D1 == [D EXCEPT !.out = @ \o SubSeq(b, 1, bytesAvailable),
                        !.buffer = SubSeq(b, bytesAvailable + 1, Len(b)),
                        !.chunkBytesRead = @ + bytesAvailable]
    IN  IF b = <<>> \/ D.state = "done" \/ D.errored THEN D
        ELSE CASE D.state = "size" ->
                 IF i = 0 THEN D
                 ELSE IF ~ValidChunkSizeLine(line)
                 THEN [D EXCEPT !.buffer = afterLine, !.errored = TRUE]
                 ELSE IF ParseHex(Trim(line), 0) = 0
                 THEN DecodeLoop([D EXCEPT !.buffer = afterLine, !.chunkSize = 0,
                                           !.state = "trailer"])
                 ELSE DecodeLoop([D EXCEPT !.buffer = afterLine,
                                           !.chunkSize = ParseHex(Trim(line), 0),
                                           !.chunkBytesRead = 0,
                                           !.state = "data"])
               [] D.state = "data" ->
                 IF D1.chunkBytesRead = D1.chunkSize
                 THEN DecodeLoop([D1 EXCEPT !.state = "after_chunk"])
                 ELSE D1
               [] D.state = "after_chunk" ->
                 IF Len(b) >= 2 /\ b[1] = "CR" /\ b[2] = "LF"
                 THEN DecodeLoop([D EXCEPT !.buffer = SubSeq(b, 3, Len(b)),
                                           !.state = "size"])
                 ELSE IF Len(b) = 1 /\ b[1] = "CR" THEN D
                 ELSE [D EXCEPT !.errored = TRUE]
               [] OTHER ->
                 IF i = 0 THEN D
                 ELSE IF line = <<>>
                 THEN [D EXCEPT !.buffer = afterLine, !.state = "done",
                                !.ended = TRUE]
                 ELSE DecodeLoop([D EXCEPT !.buffer = afterLine])

\* The bytes of s with a CR put before every LF that has none.
RECURSIVE CrlfForm(_)
CrlfForm(s) ==
    IF s = <<>> THEN <<>>
    ELSE IF Head(s) = "LF" THEN <<"CR", "LF">> \o CrlfForm(Tail(s))
    ELSE IF Len(s) >= 2 /\ s[1] = "CR" /\ s[2] = "LF"
    THEN <<"CR", "LF">> \o CrlfForm(SubSeq(s, 3, Len(s)))
    ELSE <<Head(s)>> \o CrlfForm(Tail(s))

\* A mutant of DecodeTransform: a bare LF is taken for CR LF.
DecodeTransformLenient(D, chunk) ==
    DecodeLoop([D EXCEPT !.buffer = CrlfForm(@ \o chunk)])

\* streams.ts 122-126: the decoder's transform: the chunk joins the buffer.
DecodeTransform(D, chunk) ==
    DecodeLoop([D EXCEPT !.buffer = @ \o chunk])

\* streams.ts 193-203: the decoder's flush, after which the readable side closes.
DecodeFlush(D) ==
    IF D.state = "data" /\ D.chunkBytesRead > 0 /\ D.chunkBytesRead < D.chunkSize
    THEN [D EXCEPT !.buffer = <<>>, !.errored = TRUE]
    ELSE [D EXCEPT !.buffer = <<>>, !.ended = TRUE]

\* The chunks written to the encoder: empty, one byte, bytes that are line ends
\* or digits, and one whose size is written with a hex letter.
DataChunks ==
    {<<>>, <<"x">>, <<"CR", "LF">>, <<"0", "CR">>,
     <<"x", "x", "x", "x", "x", "x", "x", "x", "x", "LF", "x">>}

RECURSIVE SeqsUpTo(_, _)
SeqsUpTo(S, n) ==
    IF n = 0 THEN {<<>>}
    ELSE SeqsUpTo(S, n - 1)
         \cup {Append(s, x) : s \in {t \in SeqsUpTo(S, n - 1) : Len(t) = n - 1}, x \in S}

RECURSIVE Flatten(_)
Flatten(chunks) ==
    IF chunks = <<>> THEN <<>> ELSE Head(chunks) \o Flatten(Tail(chunks))

\* One round trip: the chunks written, the encoded bytes not yet sent to the
\* decoder, the number of reads that carried the others, and the decoder.
\*   stage: "input" | "decoding" | "flushed"
NewCodec(chunks) ==
    [chunks |-> chunks, stage |-> "input", wire |-> <<>>, reads |-> 0,
     decoder |-> NewDecoder]

\* The codec of the specifications that transfer no chunked body.
NoCodec == NewCodec(<<>>)

\* Bodies a peer may send as chunked, well formed and not: the bytes of each.
\* "x" is a byte that is no hex digit, "SP" a space.
RawBodies ==
    {<<"1", "CR", "LF", "x", "CR", "LF", "0", "CR", "LF", "CR", "LF">>,
     <<"SP", "1", "SP", "CR", "LF", "x", "CR", "LF", "0", "CR", "LF", "CR", "LF">>,
     <<"1", "LF", "CR", "LF", "x", "CR", "LF", "0", "CR", "LF", "CR", "LF">>,
     <<"x", "CR", "LF", "0", "CR", "LF", "CR", "LF">>,
     <<"1", "x", "CR", "LF", "x", "CR", "LF">>,
     <<"CR", "LF", "CR", "LF">>,
     <<"SP", "CR", "LF", "x">>,
     <<"1", "CR", "LF", "x", "x", "CR", "LF", "0", "CR", "LF", "CR", "LF">>,
     <<"1", "CR", "LF", "x", "CR", "x", "LF">>,
     <<"1", "CR", "LF", "x", "LF", "0", "CR", "LF", "CR", "LF">>,
     <<"1", "LF", "x", "CR", "LF", "0", "CR", "LF", "CR", "LF">>,
     <<"1", "CR", "LF", "x", "CR", "LF", "0", "LF", "LF">>,
     <<"1", "CR", "LF", "x", "CR", "LF", "x", "CR", "LF", "x">>,
     <<"2", "CR", "LF", "x", "x", "CR", "LF", "1", "CR", "LF", "x", "0", "CR", "LF">>,
     <<"0", "LF", "CR", "LF">>,
     <<"0", "LF", "LF">>,
     <<"2", "LF", "CR", "LF", "CR", "LF", "0", "CR", "LF", "CR", "LF">>,
     <<"1", "LF", "x", "LF", "0", "LF", "LF">>}

\* A decoder about to read the bytes of one raw body: chunks keeps the body as
\* it was sent, wire the bytes not yet read.
NewRawInput(body) ==
    [NewCodec(<<body>>) EXCEPT !.stage = "decoding", !.wire = body]

\* ------------------------------------------- a body framed by content-length
\* The bytes that follow the head are named by their position: the peer's i-th
\* byte is i.
FirstBytes(n) == [i \in 1..n |-> i]

\* http-io.ts 152-221: the body stream of a response with a content-length and
\* no chunked encoding: the source that reads the socket, the TransformStream it
\* is piped through, and the consumer of the piped stream.
\*   length: parseInt(contentLength)                               (http-io.ts 196)
\*   sent: the bytes the peer has sent after the head; sockBuf: those of them no
\*       read has returned yet; eof: the peer has closed
\*   srcQueue: the chunks enqueued on the source's controller (166, 176); the
\*       first is remainingBuffer, the bytes read along with the head (155)
\*   pull: "idle" (pull() not called), "reading" (its loop awaits reader.read(),
\*       175), "exited"
\*   srcClosed: the source's controller.close() was called (178)
\*   aborted: abortController.signal.aborted                       (173, 215)
\*   held: the chunk the pipe has written to the TransformStream, whose transform
\*       has not run yet (<<>>: none)
\*   bytesRead, terminated: the transform's counter (197), controller.terminate()
\*   reading: the consumer has a read pending on the piped stream
\*   out: the bytes the consumer's reads returned; ended: a read returned done,
\*       or the consumer cancelled
\*   kept: onDone() has run for the response (http-io.ts 182, 186): a response
\*       with a content-length has shouldCloseAfterBody false (agent.ts 153-161),
\*       so the agent is idle and keeps the socket (agent.ts 117-128)
NewBodyStream(length, k) ==
    [length |-> length, sent |-> k, sockBuf |-> <<>>, eof |-> FALSE,
     srcQueue |-> IF k > 0 THEN <<FirstBytes(k)>> ELSE <<>>,
     pull |-> "idle", srcClosed |-> FALSE, aborted |-> FALSE,
     held |-> <<>>, bytesRead |-> 0, terminated |-> FALSE,
     reading |-> FALSE, out |-> <<>>, ended |-> FALSE, kept |-> FALSE]

\* The body stream of the specifications that read no body.
NoBodyStream == [NewBodyStream(0, 0) EXCEPT !.pull = "exited", !.ended = TRUE]

\* controller.terminate(): the piped stream ends after what was enqueued, and the
\* pipe, whose destination is now errored, cancels the source, whose cancel()
\* calls onDone() (http-io.ts 185-187).
Terminate(B) ==
    [B EXCEPT !.terminated = TRUE, !.ended = TRUE, !.srcQueue = <<>>,
              !.kept = TRUE]

\* http-io.ts 199-217: transform(chunk, controller) of the content-length stream.
LengthTransform(B, chunk) ==
    LET remaining == B.length - B.bytesRead
        toEnqueue == SubSeq(chunk, 1, MathMin(Len(chunk), remaining))
        B1 == [B EXCEPT !.bytesRead = @ + Len(toEnqueue), !.out = @ \o toEnqueue]
    IN  IF remaining <= 0 THEN Terminate(B)
        ELSE IF B1.bytesRead >= B.length
             THEN [Terminate(B1) EXCEPT !.aborted = TRUE]
             ELSE B1

\* ------------------------------------------------------ writing a request
\* The headers of a request that bear on its body.
\*   contentType: "absent", "caller" (the caller's value), or the value set
\*   contentLength: not set, or its value
\*   transferEncoding: "absent" | "chunked"
\*   contentEncoding: "absent" | "gzip" | "deflate"
CallerHeaders ==
    [contentType : {"absent", "caller"},
     contentLength : {Unset} \cup {[set |-> TRUE, value |-> v] : v \in 0..MaxBody},
     transferEncoding : {"absent", "chunked"},
     contentEncoding : {"absent", "gzip", "deflate"}]

\* The body given to writeRequest: none, a string, a Uint8Array, or a stream
\* that delivers its bytes in one chunk.  Every byte is "x".
RequestBodies ==
    {[kind |-> "none", bytes |-> <<>>]}
    \cup {[kind |-> k, bytes |-> [i \in 1..n |-> "x"]] :
              k \in {"text", "bytes", "stream"}, n \in 0..MaxBody}

\* http-io.ts 114: if (body): an empty string is falsy, an empty buffer is not.
HasBody(body) ==
    body.kind \in {"bytes", "stream"} \/ (body.kind = "text" /\ body.bytes # <<>>)

\* CompressionStream (http-io.ts 284-289): the format's header, the deflated
\* data and the format's trailer.  Bodies of MaxBody bytes have nothing to
\* compress: their data goes as it is between the two.
Compress(format, chunks) ==
    <<<<format>> \o Flatten(chunks) \o <<"trailer">>>>

\* http-io.ts 246-309: setupRequestBody(body, headers): the headers as it leaves
\* them and the chunks of the stream it returns.
SetupRequestBody(body, headers) ==
    LET h1 == IF body.kind = "text"
              THEN [headers EXCEPT
                      !.contentType = IF @ = "absent" THEN "text/plain" ELSE @,
                      !.contentLength = IF @.set THEN @
                                        ELSE [set |-> TRUE, value |-> Len(body.bytes)]]
              ELSE IF body.kind = "bytes"
              THEN [headers EXCEPT
                      !.contentLength = IF @.set THEN @
                                        ELSE [set |-> TRUE, value |-> Len(body.bytes)]]
              ELSE headers
        s1 == IF body.kind = "stream" /\ body.bytes = <<>> THEN <<>>
              ELSE <<body.bytes>>
        s2 == IF h1.contentEncoding = "absent" THEN s1
              ELSE Compress(h1.contentEncoding, s1)
        isChunked == h1.transferEncoding = "chunked"
        addChunked == ~isChunked /\ ~h1.contentLength.set
        h2 == IF addChunked THEN [h1 EXCEPT !.transferEncoding = "chunked"] ELSE h1
        s3 == IF isChunked \/ addChunked THEN <<ChunkedEncode(s2)>> ELSE s2
    IN  [headers |-> [h2 EXCEPT !.contentType =
                                   IF @ = "absent" THEN "application/octet-stream"
                                   ELSE @],
         stream |-> s3]

\* http-io.ts 89-123: one call of writeRequest.
\*   stage: "new" (the request line is written), "body" (the headers are
\*       written, the body is being written), "done"
\*   written: the headers written; pending: the chunks of the body stream still
\*       to write; wire: the body bytes written
NewRequest(body, headers) ==
    [body |-> body, headers |-> headers, stage |-> "new",
     written |-> headers, pending |-> <<>>, wire |-> <<>>]

\* The request of the specifications that write none.
NoRequest ==
    [NewRequest([kind |-> "none", bytes |-> <<>>],
                [contentType |-> "absent", contentLength |-> Unset,
                 transferEncoding |-> "absent", contentEncoding |-> "absent"])
     EXCEPT !.stage = "done"]

\* ------------------------------------------------------------- the client
\* The origins of the URLs sent through one client.
Origins == {"a", "b"}

Pools == 1..MaxPools

\* unnamed/part_014 9-12: one HttpClient and the pools it created.
\*   agentPools: _agentPools, origin -> pool (0: no entry)
\*   originOf[p]: the origin pool p was created for ("none": not created)
\*   status[p]: "none" | "open" | "closing" (its close() was called) | "closed"
\*       (a call of its close() has returned)
\*   made: the pools created so far
\*   sentTo[o]: the pool that got the latest send to origin o
\*   pending[c]: the entries <<origin, pool>> whose agentPool.close() the c-th
\*       call of close awaits, the then-callback of each not having run
\*   nextClose: the next call of close
NewClient ==
    [agentPools |-> [o \in Origins |-> 0],
     originOf |-> [p \in Pools |-> "none"],
     status |-> [p \in Pools |-> "none"],
     made |-> 0,
     sentTo |-> [o \in Origins |-> 0],
     pending |-> [c \in 1..MaxCloses |-> {}],
     nextClose |-> 1]

\* The client of the specifications that use none.
NoClient == NewClient

\* unnamed/part_014 33-39: _getOrCreateAgentPool(url): the entry of the origin, or
\* a pool made by createAgentPool and stored under the origin.
GetOrCreateAgentPool(C, o) ==
    IF C.agentPools[o] # 0 THEN C
    ELSE [C EXCEPT !.agentPools[o] = C.made + 1,
                   !.originOf[C.made + 1] = o,
                   !.status[C.made + 1] = "open",
                   !.made = @ + 1]

\* unnamed/part_014 24: delete this._agentPools[key].
DeleteEntry(C, o, p) ==
    [C EXCEPT !.agentPools[o] = 0]

\* ---------------------------------------------------------------- actions
\* What an action of the agent leaves alone.
Rest == UNCHANGED <<nextReq, pool, psend, aux>>

AgentUnchanged == UNCHANGED <<agent, req, sock, idleResolved, aux>>

\* agent.send(sendOptions) is called on agent a.
Send(a, originOk, signalAborted) ==
    /\ nextReq <= MaxReq
    /\ Commit(SendSync(St, a, nextReq, originOk, signalAborted))
    /\ nextReq' = nextReq + 1
    /\ UNCHANGED <<pool, psend, aux>>

\* agent.close() is called.
Close(a) ==
    /\ Commit(AgentClose(St, a))
    /\ Rest

\* The caller's signal of request r is aborted with a reason.
CallerAbort(r, reason) ==
    /\ ~req[r].aborted
    /\ Stage(req[r]) # "after"
    /\ Commit(SignalFires(St, r, reason))
    /\ Rest

ConnectDone(r) ==
    /\ sock[r] = "pending"
    /\ Commit(ConnectResolved(St, r))
    /\ Rest

ConnectFail(r) ==
    /\ sock[r] = "pending"
    /\ Commit(ConnectRejected(St, r))
    /\ Rest

\* agent.ts 173: the rejection of the awaited promise reaches the catch block.
Catch(r) ==
    /\ req[r].pc = "rejecting"
    /\ Commit(CatchBlock(St, r, "aborted"))
    /\ Rest

\* agent.ts 104-139: writeRequest resolved; onDone is created and readResponse is
\* given the agent's connection as it is now.
WriteDone(r) ==
    /\ req[r].pc = "writing"
    /\ sock[req[r].wroteOn] = "open"
    /\ req' = [req EXCEPT ![r].pc = "reading",
                          ![r].conn = agent[req[r].agentOf].connection]
    /\ UNCHANGED <<agent, sock, idleResolved>>
    /\ Rest

\* A write of writeRequest failed.
WriteFail(r) ==
    /\ req[r].pc = "writing"
    /\ Commit(CatchBlock(St, r, "write"))
    /\ Rest

\* The response arrives on the socket the request was written on.
HeadRead(r, status, isHeadRequest, hasContentLength, isChunked) ==
    /\ req[r].pc = "reading"
    /\ req[r].conn = req[r].wroteOn
    /\ sock[req[r].conn] = "open"
    /\ KindOf(status, isHeadRequest) # "body" => ~hasContentLength /\ ~isChunked
    /\ Commit(HeadParsed(St, r, KindOf(status, isHeadRequest),
                         hasContentLength, isChunked))
    /\ Rest

\* http-io.ts 133-136, agent.ts 182-187: EOF before any byte of the status line.
HeadEof(r) ==
    /\ req[r].pc = "reading"
    /\ req[r].conn # 0
    /\ sock[req[r].conn] = "open"
    /\ Commit(CatchBlock(St, r, "eof"))
    /\ Rest

\* A socket read of the head failed.
HeadFail(r) ==
    /\ req[r].pc = "reading"
    /\ Commit(CatchBlock(St, r, "read"))
    /\ Rest

\* The consumer takes a reader on the body (or calls a materializer) and reads.
ConsumerRead(r) ==
    /\ req[r].pc = "returned"
    /\ req[r].body = "unread"
    /\ ~req[r].reclaimed
    /\ Commit(FirstRead(St, r))
    /\ Rest

\* The pipe of a framed body pulls its source.
PipePull(r) ==
    /\ req[r].pc = "returned"
    /\ req[r].piped
    /\ req[r].body = "unread"
    /\ ~req[r].reclaimed
    /\ ~req[r].pullActive
    /\ Commit(PipeFirstPull(St, r))
    /\ Rest

BodyEnd(r) ==
    /\ req[r].body = "pulling"
    /\ sock[req[r].conn] = "open"
    /\ Commit(BodyEnds(St, r))
    /\ Rest

BodyReadError(r) ==
    /\ \/ req[r].body = "pulling"
       \/ req[r].body = "unread" /\ req[r].pullActive /\ ~req[r].reclaimed
    /\ Commit(BodyReadFails(St, r))
    /\ Rest

PullExit(r) ==
    /\ req[r].pullActive
    /\ req[r].body \in {"closed", "cancelling"}
    /\ Commit(PullLoopExits(St, r))
    /\ Rest

\* The consumer cancels the body: through its reader, or on the unlocked stream.
ConsumerCancel(r) ==
    /\ req[r].pc = "returned"
    /\ req[r].body \in {"unread", "pulling"}
    /\ ~req[r].reclaimed
    /\ Commit(CancelBody(St, r))
    /\ Rest

SourceCancel(r) ==
    /\ req[r].body = "cancelling"
    /\ Commit(SourceCancelled(St, r))
    /\ Rest

\* The caller dropped the response without consuming its body, and the collector
\* reclaims it.  The cleanup of a response whose onDone has run does nothing
\* (agent.ts 167), so it is no step.
Reclaim(r) ==
    /\ req[r].pc = "returned"
    /\ req[r].body = "unread"
    /\ ~req[r].reclaimed
    /\ ~req[r].finalized
    /\ Commit(RegistryCleanup(St, r))
    /\ Rest

\* agent-pool.ts 53-75: the pool's send is called: up to the await of acquire.
\* The factory makes no more than MaxAgents agents.
PoolSend ==
    LET r == nextReq
        P1 == PoolAcquire(PS, r)
    IN  /\ nextReq <= MaxReq
        /\ P1.pool.nextAgent <= MaxAgents + 1
        /\ pool' = P1.pool
        /\ psend' = [P1.psend EXCEPT
                        ![r].closePcAtSend = pool.closePc,
                        ![r].ahead = Len(pool.waiting),
                        ![r].waited =
                            /\ P1.psend[r].stage = "queued"
                            /\ Len(P1.pool.waiting) > Cardinality(P1.pool.creating)]
        /\ nextReq' = nextReq + 1
        /\ AgentUnchanged

\* The agent that create() made joins the pool.
FactoryCreated(a) ==
    LET P1 == PoolCreated(PS, a)
    IN  /\ a \in pool.creating
        /\ P1.pool.nextAgent <= MaxAgents + 1
        /\ pool' = P1.pool
        /\ psend' = P1.psend
        /\ AgentUnchanged
        /\ UNCHANGED nextReq

\* agent-pool.ts 75-78: the await of acquire resumes: agent.send(sendOptions),
\* then the release is hung on the agent's whenIdle() as it is after that call.
PoolSendResume(r, originOk, signalAborted) ==
    LET a == psend[r].agent
        S1 == SendSync(St, a, r, originOk, signalAborted)
    IN  /\ psend[r].stage = "acquired"
        /\ psend[r].signalAborted => signalAborted
        /\ Commit(S1)
        /\ psend' = [psend EXCEPT ![r].stage = "sent",
                                  ![r].thenOn = S1.agent[a].whenIdle]
        /\ UNCHANGED <<pool, nextReq, aux>>

\* The caller's signal of request r is aborted while the pool's send awaits
\* acquire (agent-pool.ts 75): nothing in the pool listens to it.
QueuedAbort(r) ==
    /\ psend[r].stage \in {"queued", "acquired"}
    /\ ~psend[r].signalAborted
    /\ psend' = [psend EXCEPT ![r].signalAborted = TRUE]
    /\ AgentUnchanged
    /\ UNCHANGED <<pool, nextReq>>

\* agent-pool.ts 77: the callback of whenIdle().then runs: releaseAgentFn().
WhenIdleThen(r) ==
    LET P1 == ReleaseAgentFn(PS, r)
    IN  /\ psend[r].stage = "sent"
        /\ psend[r].thenOn \in idleResolved
        /\ P1.pool.nextAgent <= MaxAgents + 1
        /\ pool' = P1.pool
        /\ psend' = [P1.psend EXCEPT ![r].stage = "done"]
        /\ AgentUnchanged
        /\ UNCHANGED nextReq

\* agent-pool.ts 85-86: close() is called: every registered releaseAgentFn is
\* called with forceClose = true.
PoolClose ==
    LET P1 == ReleaseAllFrom(PS, 1)
    IN  /\ pool.closePc = "none"
        /\ P1.pool.nextAgent <= MaxAgents + 1
        /\ pool' = [P1.pool EXCEPT !.closePc = "releasing"]
        /\ psend' = [r \in Reqs |->
                        [P1.psend[r] EXCEPT !.queuedAtClose = (psend[r].stage = "queued")]]
        /\ Commit(CloseAllFrom(St, 1))
        /\ UNCHANGED <<nextReq, aux>>

\* agent-pool.ts 87: the releases have settled and pool.drain() is called.
PoolDrain ==
    /\ pool.closePc = "releasing"
    /\ pool' = [pool EXCEPT !.draining = TRUE, !.closePc = "draining"]
    /\ AgentUnchanged
    /\ UNCHANGED <<psend, nextReq>>

\* agent-pool.ts 87-89: drain() resolved, every request being settled and every
\* agent returned; pool.clear() destroys the idle agents once no create is in
\* progress, and close returns.
PoolClear ==
    /\ pool.closePc = "draining"
    /\ pool.waiting = <<>>
    /\ pool.loans = {}
    /\ pool.creating = {}
    /\ pool' = [pool EXCEPT !.available = <<>>, !.allObjects = {},
                            !.closePc = "closed"]
    /\ Commit(DestroyAll(St, pool.available))
    /\ UNCHANGED <<psend, nextReq, aux>>

\* generic-pool, _evict and _destroy: the evictor (agent-pool.ts 14-19, 23-25, 37-38)
\* finds an idle agent idle for too long, removes it and calls destroy (agent-pool.ts
\* 46-48).  An agent is evicted only while the factory can make another.
Evict(a) ==
    /\ \E i \in 1..Len(pool.available) : pool.available[i] = a
    /\ pool.nextAgent <= MaxAgents
    /\ pool' = [pool EXCEPT !.available = SelectSeq(@, LAMBDA x : x # a),
                            !.allObjects = @ \ {a}]
    /\ Commit(AgentClose(St, a))
    /\ UNCHANGED <<psend, nextReq, aux>>

\* ------------------------------------------------- one agent, used directly
TheAgent == 1

InitAgents ==
    /\ agent = [a \in Agents |-> NewAgent]
    /\ req = [r \in Reqs |-> NewReq]
    /\ sock = [r \in Reqs |-> "none"]
    /\ idleResolved = {0}
    /\ nextReq = 1
    /\ psend = [r \in Reqs |-> NewPoolSend]

\* One agent made by createAgent; its pool is never sent through.
Init ==
    /\ InitAgents
    /\ pool = NewPool(Unset)
    /\ lr = NoLineReader
    /\ bp = NoBodyParser
    /\ cd = NoCodec
    /\ cl = NoClient
    /\ bs = NoBodyStream
    /\ wr = NoRequest

Next ==
    \/ \E originOk, signalAborted \in BOOLEAN : Send(TheAgent, originOk, signalAborted)
    \/ Close(TheAgent)
    \/ \E r \in Reqs, reason \in Reasons : CallerAbort(r, reason)
    \/ \E r \in Reqs : ConnectDone(r)
    \/ \E r \in Reqs : ConnectFail(r)
    \/ \E r \in Reqs : Catch(r)
    \/ \E r \in Reqs : WriteDone(r)
    \/ \E r \in Reqs : WriteFail(r)
    \/ \E r \in Reqs, status \in Statuses :
           \E isHeadRequest, hasContentLength, isChunked \in BOOLEAN :
               HeadRead(r, status, isHeadRequest, hasContentLength, isChunked)
    \/ \E r \in Reqs : HeadEof(r)
    \/ \E r \in Reqs : HeadFail(r)
    \/ \E r \in Reqs : ConsumerRead(r)
    \/ \E r \in Reqs : PipePull(r)
    \/ \E r \in Reqs : BodyEnd(r)
    \/ \E r \in Reqs : BodyReadError(r)
    \/ \E r \in Reqs : PullExit(r)
    \/ \E r \in Reqs : ConsumerCancel(r)
    \/ \E r \in Reqs : SourceCancel(r)
    \/ \E r \in Reqs : Reclaim(r)

Spec == Init /\ [][Next]_vars

\* ------------------------------------------------------ a pool of agents
PoolInit ==
    /\ InitAgents
    /\ pool \in {NewPool(o) : o \in PoolOptions}
    /\ lr = NoLineReader
    /\ bp = NoBodyParser
    /\ cd = NoCodec
    /\ cl = NoClient
    /\ bs = NoBodyStream
    /\ wr = NoRequest

PoolNext ==
    \/ PoolSend
    \/ \E a \in Agents : FactoryCreated(a)
    \/ \E r \in Reqs, originOk, signalAborted \in BOOLEAN :
           PoolSendResume(r, originOk, signalAborted)
    \/ \E r \in Reqs : WhenIdleThen(r)
    \/ \E a \in Agents : Evict(a)
    \/ \E r \in Reqs : QueuedAbort(r)
    \/ \E r \in Reqs, reason \in Reasons : CallerAbort(r, reason)
    \/ \E r \in Reqs : ConnectDone(r)
    \/ \E r \in Reqs : ConnectFail(r)
    \/ \E r \in Reqs : Catch(r)
    \/ \E r \in Reqs : WriteDone(r)
    \/ \E r \in Reqs : WriteFail(r)
    \/ \E r \in Reqs, status \in Statuses :
           \E isHeadRequest, hasContentLength, isChunked \in BOOLEAN :
               HeadRead(r, status, isHeadRequest, hasContentLength, isChunked)
    \/ \E r \in Reqs : HeadEof(r)
    \/ \E r \in Reqs : HeadFail(r)
    \/ \E r \in Reqs : ConsumerRead(r)
    \/ \E r \in Reqs : PipePull(r)
    \/ \E r \in Reqs : BodyEnd(r)
    \/ \E r \in Reqs : BodyReadError(r)
    \/ \E r \in Reqs : PullExit(r)
    \/ \E r \in Reqs : ConsumerCancel(r)
    \/ \E r \in Reqs : SourceCancel(r)
    \/ \E r \in Reqs : Reclaim(r)

PoolSpec == PoolInit /\ [][PoolNext]_vars

\* A pool that is closed: its server answers every request and its callers abort
\* nothing, so that requests fail only by the pool's close().
ClosingNext ==
    \/ PoolSend
    \/ PoolClose
    \/ PoolDrain
    \/ PoolClear
    \/ \E a \in Agents : FactoryCreated(a)
    \/ \E r \in Reqs : PoolSendResume(r, TRUE, FALSE)
    \/ \E r \in Reqs : WhenIdleThen(r)
    \/ \E a \in Agents : Evict(a)
    \/ \E r \in Reqs : ConnectDone(r)
    \/ \E r \in Reqs : Catch(r)
    \/ \E r \in Reqs : WriteDone(r)
    \/ \E r \in Reqs, hasContentLength, isChunked \in BOOLEAN :
           HeadRead(r, 200, FALSE, hasContentLength, isChunked)
    \/ \E r \in Reqs : ConsumerRead(r)
    \/ \E r \in Reqs : PipePull(r)
    \/ \E r \in Reqs : BodyEnd(r)
    \/ \E r \in Reqs : BodyReadError(r)
    \/ \E r \in Reqs : PullExit(r)
    \/ \E r \in Reqs : ConsumerCancel(r)
    \/ \E r \in Reqs : SourceCancel(r)

ClosingPoolSpec == PoolInit /\ [][ClosingNext]_vars

\* A pool whose server answers every request, whose callers abort nothing and
\* consume or cancel every body they get.
FairNext ==
    \/ PoolSend
    \/ \E a \in Agents : FactoryCreated(a)
    \/ \E r \in Reqs : PoolSendResume(r, TRUE, FALSE)
    \/ \E r \in Reqs : WhenIdleThen(r)
    \/ \E a \in Agents : Evict(a)
    \/ \E r \in Reqs : ConnectDone(r)
    \/ \E r \in Reqs : WriteDone(r)
    \/ \E r \in Reqs, hasContentLength, isChunked \in BOOLEAN :
           HeadRead(r, 200, FALSE, hasContentLength, isChunked)
    \/ \E r \in Reqs : HeadRead(r, 200, TRUE, FALSE, FALSE)
    \/ \E r \in Reqs : ConsumerRead(r)
    \/ \E r \in Reqs : PipePull(r)
    \/ \E r \in Reqs : BodyEnd(r)
    \/ \E r \in Reqs : PullExit(r)
    \/ \E r \in Reqs : ConsumerCancel(r)
    \/ \E r \in Reqs : SourceCancel(r)

\* Every step of the pool, of the transport and of the server is taken in the
\* end; a caller that holds a response reads its body or cancels it in the end.
Fairness ==
    /\ \A a \in Agents : WF_vars(FactoryCreated(a))
    /\ \A r \in Reqs :
        /\ WF_vars(PoolSendResume(r, TRUE, FALSE))
        /\ WF_vars(WhenIdleThen(r))
        /\ WF_vars(ConnectDone(r))
        /\ WF_vars(WriteDone(r))
        /\ WF_vars(\E hasContentLength, isChunked \in BOOLEAN :
                       HeadRead(r, 200, FALSE, hasContentLength, isChunked))
        /\ WF_vars(ConsumerRead(r) \/ ConsumerCancel(r))
        /\ WF_vars(BodyEnd(r))
        /\ WF_vars(SourceCancel(r))

FairPoolSpec == PoolInit /\ [][FairNext]_vars /\ Fairness

\* ------------------------------------------- reading the head of a response
\* The peer sends a head, or a part of one, and closes; readResponse reads it.
LrDeliver ==
    /\ lr.stage \in {"status", "headers"}
    /\ lr.wire # <<>>
    /\ lr' = ChunkRead(lr)
    /\ UNCHANGED <<agent, req, sock, idleResolved, nextReq, pool, psend, bp, cd, cl, bs, wr>>

LrEof ==
    /\ lr.stage \in {"status", "headers"}
    /\ lr.wire = <<>>
    /\ lr' = EofRead(lr)
    /\ UNCHANGED <<agent, req, sock, idleResolved, nextReq, pool, psend, bp, cd, cl, bs, wr>>

HeadInit ==
    /\ InitAgents
    /\ pool = NewPool(Unset)
    /\ bp = NoBodyParser
    /\ cd = NoCodec
    /\ cl = NoClient
    /\ bs = NoBodyStream
    /\ wr = NoRequest
    /\ \E h \in Heads, isHeadRequest \in BOOLEAN :
         \E received \in Prefixes(h) :
           \E reads \in SplitsUpTo(received, MaxReads) :
              lr = NewLineReader(received, reads, isHeadRequest)

HeadNext ==
    \/ LrDeliver
    \/ LrEof

HeadSpec == HeadInit /\ [][HeadNext]_vars

\* ------------------------------------------------- materializing one body
\* A materializer of the parser is called.
BpCall(method) ==
    /\ Len(bp.calls) < MaxCalls
    /\ bp' = Materialize(bp, method)
    /\ UNCHANGED <<agent, req, sock, idleResolved, nextReq, pool, psend, lr, cd, cl, bs, wr>>

\* body-parser.ts 25-40, 48-52: the stream was read to its end and the call that
\* awaited it settles; JSON.parse may throw.
BpSettle(i, parses) ==
    /\ i \in 1..Len(bp.calls)
    /\ bp.calls[i].outcome = "reading"
    /\ parses \/ bp.calls[i].method = "json"
    /\ bp' = [bp EXCEPT !.calls[i].outcome = IF parses THEN "value" ELSE "SyntaxError"]
    /\ UNCHANGED <<agent, req, sock, idleResolved, nextReq, pool, psend, lr, cd, cl, bs, wr>>

BodyInit ==
    /\ InitAgents
    /\ pool = NewPool(Unset)
    /\ lr = NoLineReader
    /\ bp \in {NewBodyParser(t) : t \in ContentTypes}
    /\ cd = NoCodec
    /\ cl = NoClient
    /\ bs = NoBodyStream
    /\ wr = NoRequest

BodyNext ==
    \/ \E method \in Materializers : BpCall(method)
    \/ \E i \in 1..MaxCalls, parses \in BOOLEAN : BpSettle(i, parses)

BodySpec == BodyInit /\ [][BodyNext]_vars

\* ------------------------------------------------ a chunked round trip
\* The chunks go through the encoder, whose output is on its way to the decoder.
CdEncode ==
    /\ cd.stage = "input"
    /\ cd' = [cd EXCEPT !.stage = "decoding", !.wire = ChunkedEncode(cd.chunks)]
    /\ UNCHANGED <<agent, req, sock, idleResolved, nextReq, pool, psend, lr, bp, cl, bs, wr>>

\* The decoder's transform is called with the next read, of n bytes.
CdTransform(n) ==
    /\ cd.stage = "decoding"
    /\ n \in 1..Len(cd.wire)
    /\ cd.reads < MaxReads
    /\ ~cd.decoder.ended /\ ~cd.decoder.errored
    /\ cd' = [cd EXCEPT !.wire = SubSeq(@, n + 1, Len(@)), !.reads = @ + 1,
                        !.decoder = DecodeTransform(@, SubSeq(cd.wire, 1, n))]
    /\ UNCHANGED <<agent, req, sock, idleResolved, nextReq, pool, psend, lr, bp, cl, bs, wr>>

\* The input ends, with the bytes left in wire never sent, and the decoder's
\* flush is called.
CdFlush ==
    /\ cd.stage = "decoding"
    /\ ~cd.decoder.ended /\ ~cd.decoder.errored
    /\ cd' = [cd EXCEPT !.stage = "flushed", !.decoder = DecodeFlush(@)]
    /\ UNCHANGED <<agent, req, sock, idleResolved, nextReq, pool, psend, lr, bp, cl, bs, wr>>

CodecInit ==
    /\ InitAgents
    /\ pool = NewPool(Unset)
    /\ lr = NoLineReader
    /\ bp = NoBodyParser
    /\ cd \in {NewCodec(chunks) : chunks \in SeqsUpTo(DataChunks, MaxChunks)}
    /\ cl = NoClient
    /\ bs = NoBodyStream
    /\ wr = NoRequest

CodecNext ==
    \/ CdEncode
    \/ \E n \in 1..Len(cd.wire) : CdTransform(n)
    \/ CdFlush

CodecSpec == CodecInit /\ [][CodecNext]_vars

\* ------------------------------------------------- decoding a raw body
\* The decoder reads whatever the peer sent, in reads of any size, until the
\* input ends.
DecoderInit ==
    /\ InitAgents
    /\ pool = NewPool(Unset)
    /\ lr = NoLineReader
    /\ bp = NoBodyParser
    /\ cd \in {NewRawInput(body) : body \in RawBodies}
    /\ cl = NoClient
    /\ bs = NoBodyStream
    /\ wr = NoRequest

DecoderNext ==
    \/ \E n \in 1..Len(cd.wire) : CdTransform(n)
    \/ CdFlush

DecoderSpec == DecoderInit /\ [][DecoderNext]_vars

\* ------------------------------------------- reading a content-length body
\* The peer sends one more byte, or closes its side.
BsPeerSend ==
    /\ bs.sent < MaxWire /\ ~bs.eof
    /\ bs' = [bs EXCEPT !.sent = @ + 1, !.sockBuf = Append(@, bs.sent + 1)]
    /\ UNCHANGED <<agent, req, sock, idleResolved, nextReq, pool, psend, lr, bp, cd, cl, wr>>

BsPeerClose ==
    /\ ~bs.eof
    /\ bs' = [bs EXCEPT !.eof = TRUE]
    /\ UNCHANGED <<agent, req, sock, idleResolved, nextReq, pool, psend, lr, bp, cd, cl, wr>>

\* The consumer reads the body (response.text() and the like read to the end).
BsConsumerRead ==
    /\ ~bs.reading /\ ~bs.ended
    /\ bs' = [bs EXCEPT !.reading = TRUE]
    /\ UNCHANGED <<agent, req, sock, idleResolved, nextReq, pool, psend, lr, bp, cd, cl, wr>>

\* pipeThrough (http-io.ts 198): the pipe reads the source whenever the
\* TransformStream's writable side has room, and writes the chunk to it.
BsPipeRead ==
    /\ ~bs.terminated /\ bs.held = <<>> /\ bs.srcQueue # <<>>
    /\ bs' = [bs EXCEPT !.held = Head(bs.srcQueue), !.srcQueue = Tail(@)]
    /\ UNCHANGED <<agent, req, sock, idleResolved, nextReq, pool, psend, lr, bp, cd, cl, wr>>

\* http-io.ts 168-172: the pipe's read finds the source's queue empty, and pull()
\* is called: its loop starts to read the socket.
BsPull ==
    /\ bs.pull = "idle" /\ ~bs.terminated /\ ~bs.srcClosed
    /\ bs.held = <<>> /\ bs.srcQueue = <<>>
    /\ bs' = [bs EXCEPT !.pull = "reading"]
    /\ UNCHANGED <<agent, req, sock, idleResolved, nextReq, pool, psend, lr, bp, cd, cl, wr>>

\* http-io.ts 173-176: reader.read() returns the next n bytes; they are enqueued
\* (on a cancelled source enqueue throws and the loop is left), and the loop
\* goes on unless the transform has aborted it.
BsSockRead(n) ==
    /\ bs.pull = "reading" /\ n \in 1..Len(bs.sockBuf)
    /\ bs' = [bs EXCEPT
                !.sockBuf = SubSeq(@, n + 1, Len(@)),
                !.srcQueue = IF bs.terminated THEN @
                             ELSE Append(@, SubSeq(bs.sockBuf, 1, n)),
                !.pull = IF bs.terminated \/ bs.aborted THEN "exited" ELSE @,
                !.kept = @ \/ bs.terminated \/ bs.aborted,
                !.srcClosed = @ \/ bs.terminated \/ bs.aborted]
    /\ UNCHANGED <<agent, req, sock, idleResolved, nextReq, pool, psend, lr, bp, cd, cl, wr>>

\* http-io.ts 175, 178: reader.read() returns done; the source is closed.
BsSockEof ==
    /\ bs.pull = "reading" /\ bs.sockBuf = <<>> /\ bs.eof
    /\ bs' = [bs EXCEPT !.pull = "exited", !.srcClosed = TRUE, !.kept = TRUE]
    /\ UNCHANGED <<agent, req, sock, idleResolved, nextReq, pool, psend, lr, bp, cd, cl, wr>>

\* http-io.ts 199-217: the consumer's read lifts the backpressure of the
\* TransformStream, and transform runs on the chunk written to it.
BsTransform ==
    /\ bs.held # <<>> /\ bs.reading /\ ~bs.terminated
    /\ bs' = [LengthTransform(bs, bs.held) EXCEPT !.held = <<>>, !.reading = FALSE]
    /\ UNCHANGED <<agent, req, sock, idleResolved, nextReq, pool, psend, lr, bp, cd, cl, wr>>

\* The source was closed and the pipe has passed on all of its chunks: the pipe
\* closes the TransformStream, whose readable side ends.
BsFlush ==
    /\ bs.srcClosed /\ bs.srcQueue = <<>> /\ bs.held = <<>>
    /\ ~bs.terminated /\ ~bs.ended
    /\ bs' = [bs EXCEPT !.ended = TRUE, !.reading = FALSE]
    /\ UNCHANGED <<agent, req, sock, idleResolved, nextReq, pool, psend, lr, bp, cd, cl, wr>>

\* http-io.ts 185-187: the consumer cancels the body before its end; the pipe
\* hands the cancellation to the source, whose cancel() calls onDone().
BsCancel ==
    /\ ~bs.ended /\ ~bs.terminated
    /\ bs' = [bs EXCEPT !.ended = TRUE, !.terminated = TRUE, !.reading = FALSE,
                        !.srcQueue = <<>>, !.held = <<>>, !.kept = TRUE]
    /\ UNCHANGED <<agent, req, sock, idleResolved, nextReq, pool, psend, lr, bp, cd, cl, wr>>

\* A response with content-length `length`, k of whose body bytes arrived with
\* the head.
LengthInit ==
    /\ InitAgents
    /\ pool = NewPool(Unset)
    /\ lr = NoLineReader
    /\ bp = NoBodyParser
    /\ cd = NoCodec
    /\ cl = NoClient
    /\ bs \in {NewBodyStream(length, k) : length \in 0..MaxLength, k \in 0..MaxWire}
    /\ wr = NoRequest

\* What the stream, the pipe and the consumer do on their own.
BsStep ==
    \/ BsConsumerRead
    \/ BsPipeRead
    \/ BsPull
    \/ \E n \in 1..Len(bs.sockBuf) : BsSockRead(n)
    \/ BsSockEof
    \/ BsTransform
    \/ BsFlush

LengthNext ==
    \/ BsPeerSend
    \/ BsPeerClose
    \/ BsConsumerRead
    \/ BsPipeRead
    \/ BsPull
    \/ \E n \in 1..Len(bs.sockBuf) : BsSockRead(n)
    \/ BsSockEof
    \/ BsTransform
    \/ BsFlush

\* Every callback that is ready runs; the peer may stay silent for ever.
LengthSpec == LengthInit /\ [][LengthNext]_vars /\ WF_vars(BsStep)

\* The same response with a consumer that may cancel the body.
CancelNext ==
    \/ LengthNext
    \/ BsCancel

CancelSpec == LengthInit /\ [][CancelNext]_vars

\* -------------------------------------------------------- writing a request
\* http-io.ts 112-118: setupRequestBody, when there is a body, and writeHeaders.
WrHeaders ==
    /\ wr.stage = "new"
    /\ LET r == IF HasBody(wr.body) THEN SetupRequestBody(wr.body, wr.headers)
                ELSE [headers |-> wr.headers, stream |-> <<>>]
       IN  wr' = [wr EXCEPT !.written = r.headers, !.pending = r.stream,
                            !.stage = IF r.stream = <<>> THEN "done" ELSE "body"]
    /\ UNCHANGED <<agent, req, sock, idleResolved, nextReq, pool, psend, lr, bp, cd, cl, bs>>

\* http-io.ts 327-334: writeRequestBody writes the next chunk of the stream.
WrBodyChunk ==
    /\ wr.stage = "body"
    /\ wr' = [wr EXCEPT !.wire = @ \o Head(wr.pending), !.pending = Tail(@),
                        !.stage = IF Len(wr.pending) = 1 THEN "done" ELSE @]
    /\ UNCHANGED <<agent, req, sock, idleResolved, nextReq, pool, psend, lr, bp, cd, cl, bs>>

RequestInit ==
    /\ InitAgents
    /\ pool = NewPool(Unset)
    /\ lr = NoLineReader
    /\ bp = NoBodyParser
    /\ cd = NoCodec
    /\ cl = NoClient
    /\ bs = NoBodyStream
    /\ wr \in {NewRequest(body, headers) : body \in RequestBodies, headers \in CallerHeaders}

RequestNext ==
    \/ WrHeaders
    \/ WrBodyChunk

RequestSpec == RequestInit /\ [][RequestNext]_vars

\* -------------------------------------------------------------- one client
\* unnamed/part_014 14-18: send(options): the pool of the URL's origin gets the
\* request.
ClSend(o) ==
    LET C1 == GetOrCreateAgentPool(cl, o)
    IN  /\ C1.made <= MaxPools
        /\ cl' = [C1 EXCEPT !.sentTo[o] = C1.agentPools[o]]
        /\ UNCHANGED <<agent, req, sock, idleResolved, nextReq, pool, psend, lr, bp, cd, bs, wr>>

\* unnamed/part_014 20-26: close(): agentPool.close() is called on every entry
\* of the map, and a callback is hung on each of the promises.
ClClose ==
    LET c == cl.nextClose
        entries == {<<o, cl.agentPools[o]>> : o \in {x \in Origins : cl.agentPools[x] # 0}}
    IN  /\ c <= MaxCloses
        /\ cl' = [cl EXCEPT
                    !.pending[c] = entries,
                    !.status = [p \in Pools |->
                                   IF \E e \in entries : e[2] = p /\ cl.status[p] = "open"
                                   THEN "closing" ELSE cl.status[p]],
                    !.nextClose = @ + 1]
        /\ UNCHANGED <<agent, req, sock, idleResolved, nextReq, pool, psend, lr, bp, cd, bs, wr>>

\* agent-pool.ts 85-89: the close() of pool p has released, drained and cleared.
ClPoolClosed(p) ==
    /\ cl.status[p] = "closing"
    /\ cl' = [cl EXCEPT !.status[p] = "closed"]
    /\ UNCHANGED <<agent, req, sock, idleResolved, nextReq, pool, psend, lr, bp, cd, bs, wr>>

\* unnamed/part_014 23-24: the promise of agentPool.close() that the c-th close
\* awaits for origin o has resolved, and its then-callback runs.
ClCloseThen(c, o) ==
    /\ \E e \in cl.pending[c] :
          /\ e[1] = o
          /\ cl.status[e[2]] = "closed"
          /\ cl' = [DeleteEntry(cl, o, e[2]) EXCEPT !.pending[c] = @ \ {e}]
    /\ UNCHANGED <<agent, req, sock, idleResolved, nextReq, pool, psend, lr, bp, cd, bs, wr>>

ClientInit ==
    /\ InitAgents
    /\ pool = NewPool(Unset)
    /\ lr = NoLineReader
    /\ bp = NoBodyParser
    /\ cd = NoCodec
    /\ cl = NewClient
    /\ bs = NoBodyStream
    /\ wr = NoRequest

ClientNext ==
    \/ \E o \in Origins : ClSend(o)
    \/ ClClose
    \/ \E p \in Pools : ClPoolClosed(p)
    \/ \E c \in 1..MaxCloses, o \in Origins : ClCloseThen(c, o)

ClientSpec == ClientInit /\ [][ClientNext]_vars

\* ------------------------------------------------------------------ claims
\* An accepted send that has reached neither its onDone nor its failure.  A send
\* whose await was already rejected by an abort counts as failed.
InFlight(q) ==
    \/ q.pc \in {"connecting", "writing", "reading"}
    \/ q.pc = "returned" /\ ~q.finalized

\* The whenIdle promise of agent a is resolved and a is not busy.
IsIdleNow(a) == ~agent[a].isBusy /\ agent[a].whenIdle \in idleResolved

\* C1: an agent has at most one request in flight at any time, whatever sequence
\* of send, close, abort, body end, body cancel and reclamation is applied to it.
C1_AtMostOneInFlight ==
    \A a \in Agents :
        Cardinality({r \in Reqs : req[r].agentOf = a /\ InFlight(req[r])}) <= 1

\* C2: a send called while the agent is busy rejects with 'Agent is busy' and
\* changes nothing: the agent's state, every socket, every other request and every
\* whenIdle promise are as they were, and nothing was connected or written for it.
C2_BusySendRejected ==
    [][\A r \in Reqs :
          (/\ req[r].pc = "new"
           /\ req'[r].pc # "new"
           /\ agent[req'[r].agentOf].isBusy)
          => /\ req'[r] = FailedReq([NewReq EXCEPT !.agentOf = req'[r].agentOf], "busy")
             /\ agent' = agent
             /\ sock' = sock
             /\ idleResolved' = idleResolved
             /\ \A r2 \in Reqs \ {r} : req'[r2] = req[r2]]_vars

\* C2, witness: a send was rejected as busy and the request that was in flight
\* went on to return its response and to end its body.
C2_Witness ==
    \E r, r2 \in Reqs :
        /\ r2 < r
        /\ req[r].outcome = "busy"
        /\ req[r2].agentOf = req[r].agentOf
        /\ req[r2].outcome = "response"
        /\ req[r2].body = "closed"
        /\ req[r2].read = "done"

\* One of the triggers of onDone has happened to the response of q: its body
\* ended, failed or was cancelled at its source, or the response was reclaimed.
Triggered(q) ==
    /\ q.outcome \in {"response", "badstatus"}
    /\ q.body \in {"closed", "errored"} \/ q.reclaimed \/ q.outcome = "badstatus"

\* C3: however many of its triggers fire, the effect of a request's onDone happens
\* exactly once, and right after it the agent is idle.
C3_OnDoneOnce ==
    [][\A r \in Reqs :
          /\ req'[r].doneEffects <= 1
          /\ Triggered(req'[r]) => req'[r].doneEffects = 1
          /\ req'[r].doneEffects # req[r].doneEffects
             => /\ ~agent'[req[r].agentOf].isBusy
                /\ agent'[req[r].agentOf].whenIdle \in idleResolved']_vars

\* C3, witness: two triggers have fired for one response (the source's cancel()
\* when the framed body ended, then the finally of the pull loop) and the effect
\* has happened once.
C3_Witness ==
    \E r \in Reqs :
        /\ req[r].pc = "returned"
        /\ req[r].piped
        /\ req[r].read = "done"
        /\ req[r].body = "closed"
        /\ ~req[r].pullActive
        /\ req[r].doneEffects = 1

\* C6: when the body of a response that has neither content-length nor chunked
\* transfer-encoding has ended, the socket that carried it is closed, whatever the
\* request method or the status.
C6_UnframedSocketClosed ==
    \A r \in Reqs :
        (/\ req[r].pc = "returned"
         /\ ~req[r].piped
         /\ req[r].body \in {"closed", "errored"})
        => sock[req[r].wroteOn] = "closed"

\* The request's signal fired after the request was written on a socket.
AbortedOnSocket(q) ==
    /\ q.wroteOn # 0
    /\ q.aborted \/ q.outcome = "aborted"

\* C7: no later request is written on the socket that carried a request whose
\* abort signal fired, the response body of a framed response being streamed
\* included.
C7_AbortedSocketNotReused ==
    [][\A r, r2 \in Reqs :
          (/\ r # r2
           /\ AbortedOnSocket(req[r])
           /\ req[r2].pc # "writing"
           /\ req'[r2].pc = "writing")
          => req'[r2].wroteOn # req[r].wroteOn]_vars

\* C8: once the abort signal has fired while the body is being streamed, a read
\* that is pending settles with the abort reason and with nothing else.
C8_PendingReadSettlesWithAbort ==
    [][\A r \in Reqs :
          (/\ req[r].pc = "returned"
           /\ req[r].aborted
           /\ req[r].read = "pending"
           /\ req'[r].read # "pending")
          => req'[r].read = "abort"]_vars

\* The step in which the catch block of send runs for request r, whose await of
\* the write or of the head was rejected by its abort signal.
AbortCaught(r) ==
    /\ req[r].pc = "rejecting"
    /\ req[r].abortStage \in {"writing", "reading"}
    /\ req'[r].pc = "failed"

\* After that step the agent is idle and the socket it held is closed.
IdleAndClosedAfter(r) ==
    LET a == req[r].agentOf IN
    /\ ~agent'[a].isBusy
    /\ agent'[a].whenIdle \in idleResolved'
    /\ agent'[a].connection = 0
    /\ agent[a].connection # 0 => sock'[agent[a].connection] = "closed"

\* C9: when the abort signal fires while send awaits the write or the head, send
\* rejects with the abort reason, and afterwards the agent is idle with its
\* socket closed.
C9_RejectsWithTheReason ==
    [][\A r \in Reqs :
          AbortCaught(r)
          => /\ req'[r].outcome = "aborted"
             /\ req[r].rejection = "reason"
             /\ IdleAndClosedAfter(r)]_vars

C4_AtMostMaxAlive ==
    (pool.options.set /\ pool.options.value >= 1)
        => Cardinality(Alive) <= pool.options.value

\* C4, witness: k agents are alive, all of them borrowed, and a further send waits
\* in the queue for one of them.
C4_Witness ==
    /\ pool.options.set
    /\ pool.options.value >= 1
    /\ Cardinality(pool.loans) = pool.options.value
    /\ Alive = pool.loans
    /\ Len(pool.waiting) > 0

FramedBodyEndsClean(r) ==
    /\ req[r].piped
    /\ ~req[r].aborted
    /\ req[r].body = "pulling"
    /\ req'[r].body = "closed"
    /\ req'[r].read = "done"

\* C11: after a content-length or chunked response whose body was read to its end
\* without abort or error, the agent keeps the socket that carried it, and the next
\* send on that agent is written on that socket without a new connect.
C11_FramedSocketReused ==
    [][\A r \in Reqs :
          LET a == req[r].agentOf IN
          /\ FramedBodyEndsClean(r)
             => /\ agent'[a].connection = req[r].conn
                /\ sock'[req[r].conn] = "open"
          /\ \A r2 \in Reqs :
                (/\ r2 = r + 1
                 /\ req[r].pc = "returned" /\ req[r].piped /\ ~req[r].aborted
                 /\ req[r].body = "closed" /\ req[r].read = "done"
                 /\ agent[a].connection # 0
                 /\ req[r2].pc = "new"
                 /\ req'[r2].pc \in {"connecting", "writing"})
                => /\ req'[r2].pc = "writing"
                   /\ req'[r2].wroteOn = req[r].conn
                   /\ sock' = sock]_vars

\* C12: a send whose URL has another origin than the agent's fails, with the
\* origin-mismatch error when the agent accepted the call, and before any byte is
\* written: no connect is started for it, nothing is written for it on any socket,
\* and no other request is touched.
C12_OriginMismatchRejected ==
    [][\A signalAborted \in BOOLEAN :
          Send(TheAgent, FALSE, signalAborted)
          => LET r == nextReq IN
             /\ req'[r].pc = "failed"
             /\ req'[r].wroteOn = 0
             /\ sock'[r] = "none"
             /\ \A c \in Reqs : sock'[c] \in {sock[c], "closed"}
             /\ (~agent[TheAgent].isBusy /\ ~signalAborted)
                => req'[r].outcome = "origin"
             /\ \A r2 \in Reqs \ {r} : req'[r2] = req[r2]]_vars

\* C12, witness: an agent that held an open socket after a framed response
\* rejected a send to another origin.
C12_Witness ==
    \E r, r2 \in Reqs :
        /\ r2 < r
        /\ req[r].outcome = "origin"
        /\ req[r].wroteOn = 0
        /\ req[r2].agentOf = req[r].agentOf
        /\ req[r2].outcome = "response"
        /\ req[r2].piped
        /\ req[r2].read = "done"

\* The step in which an accepted send r fails on its transport: its connect or
\* its write failed, or a read of the head failed or met EOF.
TransportFailure(r) ==
    /\ req[r].pc \in {"connecting", "writing", "reading"}
    /\ req'[r].pc = "failed"
    /\ req'[r].outcome # "badstatus"

\* C13: whenever an accepted send fails on a connect error, a write error, a
\* transport error or EOF while the head is read, the error reaches the caller,
\* the socket of the request is closed, and the agent is idle, without a
\* connection, so that it accepts a new send.
C13_FailureLeavesAgentIdle ==
    [][\A r \in Reqs :
          TransportFailure(r)
          => LET a == req[r].agentOf IN
             /\ req'[r].outcome = CASE req[r].pc = "connecting" -> "connect"
                                     [] req[r].pc = "writing" -> "write"
                                     [] OTHER -> req'[r].outcome
             /\ req'[r].outcome \in {"connect", "write", "read", "eof"}
             /\ ~agent'[a].isBusy
             /\ agent'[a].whenIdle \in idleResolved'
             /\ agent'[a].connection = 0
             /\ req[r].wroteOn # 0 => sock'[req[r].wroteOn] = "closed"]_vars

\* The peer closed before the status line was complete: no line end was received.
EofBeforeStatusLine(L) ==
    /\ L.stage = "done"
    /\ \A i \in 1..Len(L.received) : L.received[i] # "LF"

\* C14: EOF before the status line has been received, with no byte or only a part
\* of the line received, makes send fail with the ConnectionClosed error: not
\* with an error of another kind, and not with a response.
C14_EofBeforeStatusLineIsConnectionClosed ==
    EofBeforeStatusLine(lr) => lr.outcome = "ConnectionClosedError"

\* C15: a 3xx response is returned to the caller as it is, its body a stream the
\* caller may read, and the library issues no further request for it: the send
\* has written one request, and no request is written or created in that step or
\* later for that send.
C15_RedirectReturnedVerbatim ==
    [][\A r \in Reqs :
          /\ \A status \in {s \in Statuses : s >= 300 /\ s < 400} :
               \A hasContentLength, isChunked \in BOOLEAN :
                 HeadRead(r, status, FALSE, hasContentLength, isChunked)
                 => /\ req'[r].pc = "returned"
                    /\ req'[r].outcome = "response"
                    /\ req'[r].body = "unread"
                    /\ req'[r].wroteOn = req[r].wroteOn
                    /\ nextReq' = nextReq
                    /\ sock' = sock
                    /\ \A r2 \in Reqs \ {r} : req'[r2] = req[r2]
          /\ req[r].pc = "returned"
             => req'[r].pc = "returned" /\ req'[r].wroteOn = req[r].wroteOn]_vars

\* C16: a body is not buffered eagerly: after send has returned, the socket is
\* read for the body only once the caller has read or materialized it, whether
\* the body is plain, content-length or chunked.  (The claim says more: that
\* the reads then follow the consumer's demand.)
C16_NoSocketReadBeforeConsumerReads ==
    \A r \in Reqs :
        (req[r].pc = "returned" /\ req[r].pullActive) => Locked(req[r])

\* The call c reaches assertNotUsed: every materializer but formData on a body
\* that is not urlencoded.
UsesBody(c) == c.method # "formData" \/ bp.contentType = "urlencoded"

\* C17 as stated: after any materializer (text, json, arrayBuffer, blob,
\* formData) was called, every later call of any materializer fails with 'body
\* stream already read', also when it is issued before the first has settled.
C17_AnyLaterCallAlreadyRead ==
    \A i, j \in 1..Len(bp.calls) :
        i < j => bp.calls[j].outcome = "AlreadyRead"

\* C17, amended: after text, json, arrayBuffer or blob, or formData on an
\* urlencoded body, was called, every later call of one of these fails with 'body
\* stream already read', also when it is issued before the first has settled;
\* formData on a body of another content type fails with its own error whenever
\* it is called, and does not use the body.
C17_LaterCallAlreadyRead ==
    \A j \in 1..Len(bp.calls) :
        /\ UsesBody(bp.calls[j])
           => (bp.calls[j].outcome = "AlreadyRead"
                  <=> \E i \in 1..(j - 1) : UsesBody(bp.calls[i]))
        /\ ~UsesBody(bp.calls[j])
           => bp.calls[j].outcome = IF bp.contentType = "multipart"
                                    THEN "Multipart" ELSE "Unsupported"

\* C17, witness: two materializers were called without awaiting the first: the
\* first still reads the stream and the second has failed as already read.
C17_Witness ==
    \E i, j \in 1..Len(bp.calls) :
        /\ i < j
        /\ bp.calls[i].outcome = "reading"
        /\ bp.calls[j].outcome = "AlreadyRead"
        /\ bp.calls[i].method # bp.calls[j].method

\* The decoder's readable side has ended or failed in a transform, or the
\* decoder was flushed after every encoded byte was sent to it.
RoundTripOver ==
    \/ cd.stage = "decoding" /\ (cd.decoder.ended \/ cd.decoder.errored)
    \/ cd.stage = "flushed" /\ cd.wire = <<>>

\* C18: chunked encoding followed by chunked decoding is the identity on the
\* content, for every sequence of chunks written, empty chunks included, and every
\* split of the encoded bytes into reads: the decoder delivers the bytes written,
\* never more than them on the way, and its output then ends, without an error
\* and with every encoded byte consumed.
C18_ChunkedRoundTrip ==
    /\ cd.stage # "input"
       => \E n \in 0..Len(Flatten(cd.chunks)) :
              cd.decoder.out = SubSeq(Flatten(cd.chunks), 1, n)
    /\ RoundTripOver
       => /\ cd.decoder.out = Flatten(cd.chunks)
          /\ cd.decoder.ended
          /\ ~cd.decoder.errored
          /\ cd.decoder.state = "done"
          /\ cd.wire = <<>>
          /\ cd.decoder.buffer = <<>>

\* C18, witness: a round trip of chunks with an empty chunk among them and with
\* line-end bytes in the content, the encoded bytes arriving in two reads, is
\* over.
C18_Witness ==
    /\ RoundTripOver
    /\ cd.reads >= 2
    /\ \E i \in 1..Len(cd.chunks) : cd.chunks[i] = <<>>
    /\ \E i \in 1..Len(cd.chunks) : cd.chunks[i] = <<"CR", "LF">>
    /\ cd.decoder.out = <<"CR", "LF">>

\* ---- C19 ----
\* C19: after pool.close() has completed, every send on the pool is rejected
\* with an error, and no agent is acquired or created for it: the step of the
\* send changes neither the pool nor any agent, and the send stays rejected,
\* without an agent, ever after.
C19_SendAfterCloseRejected ==
    /\ [](\A r \in Reqs : psend[r].closePcAtSend = "closed" =>
              /\ psend[r].stage = "rejected"
              /\ psend[r].agent = 0)
    /\ [][pool.closePc = "closed" /\ nextReq' # nextReq =>
              /\ psend'[nextReq].stage = "rejected"
              /\ pool' = pool
              /\ UNCHANGED <<agent, req, sock, idleResolved>>]_vars

\* C19 witness: close() has completed after a send that got its agent, and a
\* send called after it is rejected.
C19_Witness ==
    \E r, q \in Reqs :
        /\ psend[r].closePcAtSend = "none"
        /\ psend[r].agent # 0
        /\ psend[q].closePcAtSend = "closed"
        /\ psend[q].stage = "rejected"

\* ---- C20 ----
\* C20: a request that was queued, waiting for an agent, when pool.close() was
\* called is rejected and never dispatched on an agent: it is still waiting or
\* it is rejected, and no agent was handed to it.
C20_QueuedAtCloseNeverDispatched ==
    \A r \in Reqs :
        psend[r].queuedAtClose =>
            /\ psend[r].stage \in {"queued", "rejected"}
            /\ psend[r].agent = 0

\* ---- C21 ----
\* C21: a request whose abort signal fired while it was queued waiting for an
\* agent is removed from the queue and rejects without waiting for an agent: it
\* is never found aborted and still waiting for the pool.
C21_QueuedAbortRejectsAtOnce ==
    \A r \in Reqs :
        psend[r].signalAborted =>
            /\ psend[r].stage # "queued"
            /\ \A i \in 1..Len(pool.waiting) : pool.waiting[i] # r

C23_IdleWithinMaxIdle ==
    Len(pool.available) <= PoolMinUnset

\* ---- C24 ----
\* C24: for every value v of poolMaxPerHost that is set, zero and negative
\* values included, the limit on the agents of the pool is max(1, v); the limit
\* is the unbounded default only when the option is not set.
C24_EffectiveLimitAtLeastOne ==
    /\ pool.options.set => pool.max = MathMax(1, pool.options.value)
    /\ pool.max = defaultMax => ~pool.options.set

\* ---- C25 ----
\* The pools of origin o that the client created and that are not closed.
LivePools(o) == {p \in Pools : cl.originOf[p] = o /\ cl.status[p] \in {"open", "closing"}}

\* C25: a client has at most one pool per origin at any time: of the pools it
\* created for one origin at most one is not closed, the sends to that origin
\* go to it, and pools of different origins differ.
C25_OnePoolPerOrigin ==
    /\ \A o \in Origins : Cardinality(LivePools(o)) <= 1
    /\ \A o \in Origins :
          cl.agentPools[o] # 0 => cl.originOf[cl.agentPools[o]] = o
    /\ \A o \in Origins :
          cl.sentTo[o] # 0 /\ cl.status[cl.sentTo[o]] = "open"
              => cl.agentPools[o] = cl.sentTo[o]

\* ---- C26 ----
\* C26: close() destroys every pool of the client, whether it is called once or
\* again after or while a call of it is running: once every call of close has
\* run to its end and the client's map is empty, no pool that the client
\* created is left unclosed.
C26_NoPoolLeftUnclosed ==
    (/\ cl.nextClose > 1
     /\ \A c \in 1..MaxCloses : cl.pending[c] = {}
     /\ \A o \in Origins : cl.agentPools[o] = 0)
    => \A p \in Pools : cl.status[p] \in {"none", "closed"}

\* ---- C27 ----
\* C27: whenIdle() returns a resolved promise when the agent is idle, and the
\* promise it returns while a request is in flight stays pending until that
\* request's transition to idle: the promise of a request is resolved only once
\* the request has reached its onDone or its failure, or was aborted by close().
C27_WhenIdleFollowsTheRequest ==
    /\ \A a \in Agents : ~agent[a].isBusy => agent[a].whenIdle \in idleResolved
    /\ \A r \in Reqs :
          r \in idleResolved => ~InFlight(req[r]) \/ req[r].aborted

C29_LengthBodyEndsAfterNBytes ==
    (bs.sent >= bs.length)
        ~> (bs.ended /\ bs.out = FirstBytes(bs.length))

\* ---- C30 ----
\* C30: when the head of a response to a HEAD request, or with a status of 1xx,
\* 204 or 304, has been read, send returns a response whose body is closed, with
\* no framing taken from content-length or transfer-encoding, and no read of the
\* socket is started for the body.
C30_IgnoredBodyIsEmptyAndClosed ==
    [][\A r \in Reqs : \A status \in Statuses, isHeadRequest \in BOOLEAN :
          ShouldIgnoreBody(isHeadRequest, status)
          /\ HeadRead(r, status, isHeadRequest, FALSE, FALSE)
          => /\ req'[r].pc = "returned"
             /\ req'[r].outcome = "response"
             /\ req'[r].body = "closed"
             /\ ~req'[r].piped
             /\ ~req'[r].pullActive]_vars

\* ---- C31 ----
\* C31: when the input of the chunked decoder ends before the terminating
\* zero-size chunk and its blank line were decoded, in whatever state the
\* decoder is, the body stream is errored and does not end normally.
C31_IncompleteChunkedBodyFails ==
    cd.stage = "flushed" => cd.decoder.errored /\ ~cd.decoder.ended

\* ---- C32 ----
\* The bytes the decoder has been given so far.
Fed ==
    LET all == Flatten(cd.chunks)
    IN  SubSeq(all, 1, Len(all) - Len(cd.wire))

\* A chunked body read in one piece: s holds a chunk-size line that, trimmed, is
\* not a non-empty run of hex digits, or a chunk's data followed by bytes that
\* are not CR LF.
RECURSIVE Malformed(_)
Malformed(s) ==
    LET i == FindCRLF(s)
        line == Trim(SubSeq(s, 1, i - 1))
        rest == SubSeq(s, i + 2, Len(s))
        size == ParseHex(line, 0)
        after == SubSeq(rest, size + 1, Len(rest))
    IN  IF i = 0 THEN FALSE
        ELSE IF line = <<>> \/ \E k \in 1..Len(line) : (\A h \in 1..16 : HexChars[h] # line[k])
        THEN TRUE
        ELSE IF size = 0 \/ Len(rest) <= size \/ after = <<"CR">> THEN FALSE
        ELSE IF Len(after) >= 2 /\ after[1] = "CR" /\ after[2] = "LF"
        THEN Malformed(SubSeq(after, 3, Len(after)))
        ELSE TRUE

\* C32: once the bytes given to the chunked decoder hold an invalid chunk-size
\* line or a chunk whose data is not followed by the line terminator, the output
\* stream is errored, however the reads split the bytes; an errored decoder
\* delivers nothing more.
C32_MalformedChunkedFails ==
    /\ [](Malformed(Fed) => cd.decoder.errored /\ ~cd.decoder.ended)
    /\ [][cd.decoder.errored => cd'.decoder.out = cd.decoder.out]_vars

\* C32 witness: a second read completes a malformed body after data was
\* delivered, and the decoder has failed.
C32_Witness ==
    /\ cd.reads = 2
    /\ Malformed(Fed)
    /\ cd.decoder.errored
    /\ cd.decoder.out # <<>>

\* ---- C33 ----
\* The body is a complete chunked body in which at least one CR LF was replaced
\* by a bare LF: content is what the CR LF form decodes to.
LfFormOfCompleteBody ==
    LET all == Flatten(cd.chunks)
        crlf == DecodeTransform(NewDecoder, CrlfForm(all))
    IN  all # CrlfForm(all) /\ crlf.ended /\ crlf.buffer = <<>>

C34_NeverLengthAndChunked ==
    wr.stage \in {"body", "done"}
        => ~(wr.written.contentLength.set /\ wr.written.transferEncoding = "chunked")

\* ---- C35 ----
\* C35: for a text or byte-buffer body whose caller set neither content-length
\* nor transfer-encoding, the content-length written is the number of body
\* bytes written, also when content-encoding makes the body be compressed.
C35_ContentLengthIsBytesWritten ==
    /\ wr.stage = "done"
    /\ wr.body.kind \in {"text", "bytes"}
    /\ ~wr.headers.contentLength.set
    /\ wr.headers.transferEncoding = "absent"
    /\ wr.written.contentLength.set
    => wr.written.contentLength.value = Len(wr.wire)

\* ---- C36 ----
\* C36: when the onDone of a request runs (its body ended, failed, was cancelled
\* or reclaimed) while a later request that was not aborted is in flight on the
\* same agent, the agent stays busy, the later request's whenIdle promise is
\* not resolved by it and the sockets the later request uses are left as they are.
C36_LateOnDoneSparesLaterRequest ==
    [][\A r, r2 \in Reqs :
          (/\ r # r2
           /\ req'[r].doneEffects > req[r].doneEffects
           /\ req[r2].agentOf = req[r].agentOf
           /\ InFlight(req[r2]) /\ ~req[r2].aborted)
          => /\ agent'[req[r2].agentOf].isBusy
             /\ r2 \in idleResolved' => r2 \in idleResolved
             /\ sock'[r2] = sock[r2]
             /\ \A c \in {req[r2].wroteOn, req[r2].conn} \ {0} : sock'[c] = sock[c]]_vars

\* ---- C37 ----
\* C37: when onDone has left the agent idle with the socket of a content-length
\* response kept for reuse, and the peer has not closed, every byte of that
\* response's body was taken off the socket: at least `length` bytes that
\* followed the head were read.
C37_KeptSocketHoldsNoBodyBytes ==
    bs.kept /\ ~bs.eof => bs.sent - Len(bs.sockBuf) >= bs.length

\* ---- C38 ----
\* C38: every socket that a connect of the agent has opened is the agent's
\* current connection or is closed.
C38_NoOpenSocketUnreferenced ==
    \A c \in Reqs :
        sock[c] = "open" => \E a \in Agents : agent[a].connection = c

\* ---- C39 ----
\* Every step of close(), of the pool, of the transport and of the server is
\* taken in the end; a caller that holds a response may never read its body
\* nor cancel it.
ClosingFairness ==
    /\ WF_vars(PoolDrain)
    /\ WF_vars(PoolClear)
    /\ \A a \in Agents : WF_vars(FactoryCreated(a))
    /\ \A r \in Reqs :
        /\ WF_vars(PoolSendResume(r, TRUE, FALSE))
        /\ WF_vars(WhenIdleThen(r))
        /\ WF_vars(ConnectDone(r))
        /\ WF_vars(Catch(r))
        /\ WF_vars(WriteDone(r))
        /\ WF_vars(\E hasContentLength, isChunked \in BOOLEAN :
                       HeadRead(r, 200, FALSE, hasContentLength, isChunked))
        /\ WF_vars(PipePull(r))
        /\ WF_vars(BodyEnd(r))
        /\ WF_vars(PullExit(r))

FairClosingSpec == PoolInit /\ [][ClosingNext]_vars /\ ClosingFairness

\* C39: once pool.close() is called it completes in the end, whatever was
\* queued when it was called and whether or not the callers consume the
\* responses they got.
C39_CloseCompletes ==
    (pool.closePc # "none") ~> (pool.closePc = "closed")

====
